---- MODULE Spec2Model ----
(***************************************************************************)
(* Pricing transformation and pivot-reporting pipeline of src/app.py       *)
(* (process_data and its helpers) and its request handlers, modelled as    *)
(* state machines: SpecDedup, SpecNorm, SpecPivot and SpecSortKey for the  *)
(* helpers, SpecPD for process_data from the merge of the catalogs on,     *)
(* SpecWeb for index and api_process, SpecRuns for two invocations that    *)
(* name their reports, SpecPivotRows for the rows of a brand's pivot       *)
(* sheet, SpecLoad for process_data from its entry to the loading of the   *)
(* chain catalog and its clean-up.                                         *)
(*                                                                         *)
(* A table (pandas DataFrame) is a record [columns, rows]: the set of      *)
(* column names and the sequence of rows, each row a function from column  *)
(* names to cells.  A text cell is [na, s] with s a sequence of            *)
(* one-character strings; a numeric cell is [na, n, d], the exact rational *)
(* n/d in lowest terms: the floating-point rounding of the program is not  *)
(* modelled.  An exception that leaves a function is a value of its        *)
(* result.                                                                 *)
(***************************************************************************)
EXTENDS Integers, Sequences, FiniteSets, TLC

VARIABLES
    df,             \* the table handed to improved_deduplication
    deduped,        \* the tables returned by successive applications
    supplier_cell,  \* one cell of the merged "Supplier" column
    supplier_code,  \* what the normalization makes of it
    brand_df,       \* the rows of one brand, as the brand loop pivots them
    pivot_cols,     \* the column labels of that brand's pivot table
    sorted_pivot_cols,  \* the pivot columns of that brand's sheet, in order
    brand_pivot,        \* the rows of that brand's pivoted sheet
    pc,             \* the position of process_data
    vendor_id,      \* argument of process_data
    gp2_threshold,  \* argument of process_data
    date_entry,     \* argument of process_data, as a day number
    PB,             \* the price book as loaded
    ZPUR,           \* the cost catalog as loaded
    PB_input,       \* the merged table, later its rows of the vendor
    PW,             \* the pricing rows of the vendor
    PW_deduped,     \* PW after improved_deduplication
    gp2_below_threshold,    \* the rows of the "GP2 Below Threshold" sheet
    brands,         \* the brands the brand loop has still to write
    sheets,         \* the sheets written to the workbook, in order
    output_file,    \* whether the workbook file exists in the output directory
    result,         \* how process_data ended: what it returned or raised
    request,        \* a request: its route, its method and its fields
    web_pc,         \* the position of the request handler
    called,         \* the arguments the handler called process_data with
    outcome,        \* what that call returned or raised
    response,       \* the handler's answer
    now,            \* datetime.now(), in ticks
    runs,           \* the invocations of process_data that write a report
    output_dir,     \* the files of the output directory and who wrote them
    load_pc,        \* the position of process_data while it loads the catalogs
    temp_dir,       \* the temporary directory: whether it exists, and its files
    chain_sheet,    \* the rows of the chain-pricing sheet, as downloaded
    CHAIN,          \* the chain table after the header row was found
    load_log,       \* what was done to the temporary directory, in order
    load_result     \* what process_data returns or raises

dedup_vars == << df, deduped >>
norm_vars == << supplier_cell, supplier_code >>
pivot_vars == << brand_df, pivot_cols, sorted_pivot_cols, brand_pivot >>
input_vars == << vendor_id, gp2_threshold, date_entry, PB, ZPUR >>
table_vars == << PB_input, PW, PW_deduped, gp2_below_threshold >>
pd_vars == << pc, input_vars, table_vars, brands, sheets, output_file, result >>
web_vars == << request, web_pc, called, outcome, response >>
run_vars == << now, runs, output_dir >>
load_vars == << load_pc, temp_dir, chain_sheet, CHAIN, load_log, load_result >>
vars == << dedup_vars, norm_vars, pivot_vars, pd_vars, web_vars, run_vars, load_vars >>

EmptyTable == [columns |-> {}, rows |-> << >>]

NoPivot == [state |-> "idle", sorted |-> << >>, rows |-> << >>]

NoResult == [kind |-> "none", value |-> << >>]

\* The value of each group of variables in the specifications that do not
\* use it.
IdleDedup ==
    /\ df = EmptyTable
    /\ deduped = << >>

IdleNorm ==
    /\ supplier_cell = [na |-> TRUE, s |-> << >>]
    /\ supplier_code = [state |-> "idle", s |-> << >>]

IdlePivot ==
    /\ brand_df = << >>
    /\ pivot_cols = << >>
    /\ sorted_pivot_cols = [state |-> "idle", cols |-> << >>, columns |-> << >>]
    /\ brand_pivot = NoPivot

IdleWeb ==
    /\ request = << >>
    /\ web_pc = "idle"
    /\ called = << >>
    /\ outcome = NoResult
    /\ response = << >>

IdleLoad ==
    /\ load_pc = "idle"
    /\ temp_dir = [exists |-> FALSE, files |-> {}]
    /\ chain_sheet = << >>
    /\ CHAIN = << >>
    /\ load_log = << >>
    /\ load_result = NoResult

IdleRuns ==
    /\ now = 0
    /\ runs = << >>
    /\ output_dir = << >>

IdleTables ==
    /\ PB_input = EmptyTable
    /\ PW = EmptyTable
    /\ PW_deduped = EmptyTable
    /\ gp2_below_threshold = EmptyTable
    /\ brands = << >>
    /\ sheets = << >>
    /\ output_file = FALSE
    /\ result = NoResult

IdlePD ==
    /\ pc = "idle"
    /\ vendor_id = << >>
    /\ gp2_threshold = [na |-> TRUE, n |-> 0, d |-> 1]
    /\ date_entry = [na |-> TRUE, n |-> 0, d |-> 1]
    /\ PB = EmptyTable
    /\ ZPUR = EmptyTable
    /\ IdleTables

(***************************************************************************)
(* Generic helpers                                                         *)
(***************************************************************************)
Range(s) == {s[i] : i \in DOMAIN s}

Min(S) == CHOOSE x \in S : \A y \in S : x <= y

\* The rows of `rows` at the positions K, in their original order.
RowsAt(rows, K) ==
    LET pos == [p \in 1..Cardinality(K) |->
                   CHOOSE j \in K : Cardinality({i \in K : i < j}) = p - 1]
    IN  [p \in 1..Cardinality(K) |-> rows[pos[p]]]

Text(s) == [na |-> FALSE, s |-> s]
Missing == [na |-> TRUE, s |-> << >>]

(***************************************************************************)
(* Numeric cells and table operations of pandas                            *)
(***************************************************************************)
Abs(n) == IF n < 0 THEN -n ELSE n

RECURSIVE GCD(_, _)
GCD(a, b) == IF b = 0 THEN a ELSE GCD(b, a % b)

\* The rational n/d (d # 0) in lowest terms with a positive denominator.
Ratio(n, d) ==
    LET g == GCD(Abs(n), Abs(d))
        sign == IF d < 0 THEN -1 ELSE 1
    IN  [na |-> FALSE, n |-> sign * (n \div g), d |-> Abs(d) \div g]

Num(n) == [na |-> FALSE, n |-> n, d |-> 1]
NaN == [na |-> TRUE, n |-> 0, d |-> 1]

Minus(a, b) == Ratio(a.n * b.d - b.n * a.d, a.d * b.d)
Times(a, b) == Ratio(a.n * b.n, a.d * b.d)
Plus(a, b) == Ratio(a.n * b.d + b.n * a.d, a.d * b.d)
Over(a, b) == Ratio(a.n * b.d, a.d * b.n)
Less(a, b) == a.n * b.d < b.n * a.d

\* row with its cell of column c set to v, the column added when absent
SetCell(row, c, v) ==
    [x \in DOMAIN row \cup {c} |-> IF x = c THEN v ELSE row[x]]

\* df[c] = df.apply(F, axis=1), and df[c] = F(df[c]) when F reads column c
Assign(t, c, F(_)) ==
    [columns |-> t.columns \cup {c},
     rows |-> [i \in DOMAIN t.rows |-> SetCell(t.rows[i], c, F(t.rows[i]))]]

\* df.drop(columns=[c for c in cols if c in df.columns])
drop(t, cols) ==
    [columns |-> t.columns \ cols,
     rows |-> [i \in DOMAIN t.rows |-> [x \in t.columns \ cols |-> t.rows[i][x]]]]

\* df[[c for c in cols if c in df.columns]]
select(t, cols) == drop(t, t.columns \ cols)

\* df.rename(columns={old: new}): a name that is not a column is ignored.
\* A renamed column that meets an existing column of the new name gives a
\* table with two columns of that name; the sample catalogs have no such
\* column, and the model keeps the renamed one.
rename(t, old, new) ==
    IF old \notin t.columns THEN t
    ELSE [columns |-> (t.columns \ {old}) \cup {new},
          rows |-> [i \in DOMAIN t.rows |->
                      [x \in (t.columns \ {old}) \cup {new} |->
                          IF x = new THEN t.rows[i][old] ELSE t.rows[i][x]]]]

\* df[mask]
where(t, P(_)) == [columns |-> t.columns, rows |-> SelectSeq(t.rows, P)]

\* Concatenation of a sequence of sequences.
RECURSIVE Flatten(_)
Flatten(ss) == IF ss = << >> THEN << >> ELSE Head(ss) \o Flatten(Tail(ss))

\* An exception leaving process_data, and its two ways of returning.
Raised(exc, what) == [kind |-> "raised", value |-> << exc, what >>]
ReturnedError(msg, arg) == [kind |-> "error", value |-> << msg, arg >>]
ReturnedFile(name) == [kind |-> "file", value |-> name]

(***************************************************************************)
(* Texts of the brand loop (src/app.py:1036-1179), as character sequences. *)
(* "EN_DASH" stands for the one character U+2013.                          *)
(***************************************************************************)
\* "Retail"
str_Retail ==
    << "R", "e", "t", "a", "i", "l" >>

\* "OP"
str_OP ==
    << "O", "P" >>

\* "Level Pricing"
str_Level_Pricing ==
    << "L", "e", "v", "e", "l", " ", "P", "r", "i", "c", "i", "n", "g" >>

\* "Deal Pricing"
str_Deal_Pricing ==
    << "D", "e", "a", "l", " ", "P", "r", "i", "c", "i", "n", "g" >>

\* "EVD (en dash) Straight Discount"
str_EVD_Straight ==
    << "E", "V", "D", " ", "EN_DASH", " ", "S", "t", "r", "a", "i", "g", "h", "t", " ", "D",
       "i", "s", "c", "o", "u", "n", "t" >>

\* "Close (en dash) Straight Discount"
str_Close_Straight ==
    << "C", "l", "o", "s", "e", " ", "EN_DASH", " ", "S", "t", "r", "a", "i", "g", "h", "t",
       " ", "D", "i", "s", "c", "o", "u", "n", "t" >>

\* "Promo (en dash) Straight Discount"
str_Promo_Straight ==
    << "P", "r", "o", "m", "o", " ", "EN_DASH", " ", "S", "t", "r", "a", "i", "g", "h", "t",
       " ", "D", "i", "s", "c", "o", "u", "n", "t" >>

\* "EVD- Special Price Goods"
str_EVD_Special ==
    << "E", "V", "D", "-", " ", "S", "p", "e", "c", "i", "a", "l", " ", "P", "r", "i",
       "c", "e", " ", "G", "o", "o", "d", "s" >>

\* "Promo- Special Price Goods"
str_Promo_Special ==
    << "P", "r", "o", "m", "o", "-", " ", "S", "p", "e", "c", "i", "a", "l", " ", "P",
       "r", "i", "c", "e", " ", "G", "o", "o", "d", "s" >>

\* "Inventory Reduction (en dash) Straight Discount"
str_InvRed_Straight ==
    << "I", "n", "v", "e", "n", "t", "o", "r", "y", " ", "R", "e", "d", "u", "c", "t",
       "i", "o", "n", " ", "EN_DASH", " ", "S", "t", "r", "a", "i", "g", "h", "t", " ", "D",
       "i", "s", "c", "o", "u", "n", "t" >>

\* "Inventory Reduction- Special Price Goods"
str_InvRed_Special ==
    << "I", "n", "v", "e", "n", "t", "o", "r", "y", " ", "R", "e", "d", "u", "c", "t",
       "i", "o", "n", "-", " ", "S", "p", "e", "c", "i", "a", "l", " ", "P", "r", "i",
       "c", "e", " ", "G", "o", "o", "d", "s" >>

\* "12 CSE"
str_12_CSE ==
    << "1", "2", " ", "C", "S", "E" >>

\* "12 EA"
str_12_EA ==
    << "1", "2", " ", "E", "A" >>

\* "5 CSE"
str_5_CSE ==
    << "5", " ", "C", "S", "E" >>

\* "X"
str_X ==
    << "X" >>

\* "Y"
str_Y ==
    << "Y" >>

\* " | "
pivot_key_separator ==
    << " ", "|", " " >>

\* ord(c): the code point of a character
ord(c) ==
    CASE c = " " -> 32
      [] c = "*" -> 42
      [] c = "-" -> 45
      [] c = "/" -> 47
      [] c = "0" -> 48
      [] c = "1" -> 49
      [] c = "2" -> 50
      [] c = "3" -> 51
      [] c = "4" -> 52
      [] c = "5" -> 53
      [] c = "6" -> 54
      [] c = "7" -> 55
      [] c = "8" -> 56
      [] c = "9" -> 57
      [] c = ":" -> 58
      [] c = "?" -> 63
      [] c = "A" -> 65
      [] c = "B" -> 66
      [] c = "C" -> 67
      [] c = "D" -> 68
      [] c = "E" -> 69
      [] c = "G" -> 71
      [] c = "I" -> 73
      [] c = "L" -> 76
      [] c = "O" -> 79
      [] c = "P" -> 80
      [] c = "R" -> 82
      [] c = "S" -> 83
      [] c = "V" -> 86
      [] c = "X" -> 88
      [] c = "Y" -> 89
      [] c = "[" -> 91
      [] c = "\\" -> 92
      [] c = "]" -> 93
      [] c = "a" -> 97
      [] c = "b" -> 98
      [] c = "c" -> 99
      [] c = "d" -> 100
      [] c = "e" -> 101
      [] c = "g" -> 103
      [] c = "h" -> 104
      [] c = "i" -> 105
      [] c = "l" -> 108
      [] c = "m" -> 109
      [] c = "n" -> 110
      [] c = "o" -> 111
      [] c = "p" -> 112
      [] c = "r" -> 114
      [] c = "s" -> 115
      [] c = "t" -> 116
      [] c = "u" -> 117
      [] c = "v" -> 118
      [] c = "y" -> 121
      [] c = "|" -> 124
      [] c = "EN_DASH" -> 8211

\* Texts of the row filters of process_data (src/app.py:453, 546-593, 640)
str_Volume_Incentives ==
    << "V", "o", "l", "u", "m", "e", " ", "I", "n", "c", "e", "n", "t", "i",
       "v", "e", "s" >>

str_Chain_Pricing ==
    << "C", "h", "a", "i", "n", " ", "P", "r", "i", "c", "i", "n", "g" >>

str_COMBO ==
    << "C", "O", "M", "B", "O" >>

str_Vendor_ ==
    << "V", "e", "n", "d", "o", "r", "_" >>

\* Sheet names of the workbook (src/app.py:691, 717, 797, 913, 1003)
str_COGS ==
    << "C", "O", "G", "S" >>

str_Price_Group_Errors ==
    << "P", "r", "i", "c", "e", " ", "G", "r", "o", "u", "p", " ", "E", "r",
       "r", "o", "r", "s" >>

str_GP2_Below_Threshold ==
    << "G", "P", "2", " ", "B", "e", "l", "o", "w", " ", "T", "h", "r", "e",
       "s", "h", "o", "l", "d" >>

str_Pricing_by_Deal_ID ==
    << "P", "r", "i", "c", "i", "n", "g", " ", "b", "y", " ", "D", "e", "a",
       "l", " ", "I", "D" >>

str_No_Brands ==
    << "N", "o", "_", "B", "r", "a", "n", "d", "s" >>

(***************************************************************************)
(* improved_deduplication                                                  *)
(***************************************************************************)
dedup_strategies ==
    << << "SAP Product ID", "Deal ID", "Deal Class", "Channel",
          "Purchase Quantity", "Price Group", "Start Date", "End Date" >>,
       << "SAP Product ID", "Deal ID", "Deal Class", "Channel", "Purchase Quantity" >>,
       << "SAP Product ID", "Price Group", "Deal Class", "Channel" >>,
       << "SAP Product ID", "Price Group", "Deal Class" >>,
       << "SAP Product ID", "Price Group" >> >>

\* [col for col in cols if col in df.columns]
existing_cols(cols, table) == SelectSeq(cols, LAMBDA col : col \in table.columns)

\* The values of a row in the columns of `subset`, in that order.
RowKey(row, subset) == [i \in DOMAIN subset |-> row[subset[i]]]

\* df.duplicated(subset=...): the mask that marks every row whose key was
\* already seen in an earlier row (keep="first").
RECURSIVE duplicated_from(_, _, _, _)
duplicated_from(rows, subset, seen, i) ==
    IF i > Len(rows) THEN << >>
    ELSE LET k == RowKey(rows[i], subset)
         IN  << k \in seen >> \o duplicated_from(rows, subset, seen \cup {k}, i + 1)

duplicated(table, subset) == duplicated_from(table.rows, subset, {}, 1)

\* Series.any()
any(mask) == \E i \in DOMAIN mask : mask[i]

RECURSIVE keep_unmarked(_, _, _)
keep_unmarked(rows, mask, i) ==
    IF i > Len(rows) THEN << >>
    ELSE (IF mask[i] THEN << >> ELSE << rows[i] >>) \o keep_unmarked(rows, mask, i + 1)

\* A deduplication that compares each row with the row just before it only.
drop_adjacent_duplicates(table, subset) ==
    [table EXCEPT !.rows =
        RowsAt(table.rows,
               {j \in 1..Len(table.rows) :
                    j = 1 \/ RowKey(table.rows[j], subset) # RowKey(table.rows[j - 1], subset)})]

\* A deduplication that keeps the last row of every key.
drop_duplicates_keep_last(table, subset) ==
    [table EXCEPT !.rows =
        RowsAt(table.rows,
               {j \in 1..Len(table.rows) :
                    \A i \in (j + 1)..Len(table.rows) :
                        RowKey(table.rows[i], subset) # RowKey(table.rows[j], subset)})]

\* df.drop_duplicates(subset=..., keep="first")
drop_duplicates(table, subset) ==
    [table EXCEPT !.rows = keep_unmarked(table.rows, duplicated(table, subset), 1)]

\* The loop over dedup_strategies, from strategy s on.
RECURSIVE dedup_from(_, _)
dedup_from(table, s) ==
    IF s > Len(dedup_strategies) THEN table
    ELSE LET ec == existing_cols(dedup_strategies[s], table)
         IN  IF Len(ec) >= 2 /\ any(duplicated(table, ec))
             THEN drop_duplicates(table, ec)
             ELSE dedup_from(table, s + 1)

\* The same loop run from the broadest strategy to the most specific one.
RECURSIVE dedup_backwards(_, _)
dedup_backwards(table, s) ==
    IF s < 1 THEN table
    ELSE LET ec == existing_cols(dedup_strategies[s], table)
         IN  IF Len(ec) >= 2 /\ any(duplicated(table, ec))
             THEN drop_duplicates(table, ec)
             ELSE dedup_backwards(table, s - 1)

improved_deduplication_broadest_first(table) ==
    dedup_backwards(table, Len(dedup_strategies))

improved_deduplication(table) == dedup_from(table, 1)

(***************************************************************************)
(* Supplier-code normalization (process_data, src/app.py:442-444).         *)
(* A text is a sequence of one-character strings; a cell is [na, s]: na    *)
(* for a missing value (NaN), s for str(x) otherwise.                      *)
(***************************************************************************)
Digits == {"0", "1", "2", "3", "4", "5", "6", "7", "8", "9"}

DigitVal(c) ==
    CASE c = "0" -> 0 [] c = "1" -> 1 [] c = "2" -> 2 [] c = "3" -> 3 [] c = "4" -> 4
      [] c = "5" -> 5 [] c = "6" -> 6 [] c = "7" -> 7 [] c = "8" -> 8 [] c = "9" -> 9

DigitChar(n) ==
    CASE n = 0 -> "0" [] n = 1 -> "1" [] n = 2 -> "2" [] n = 3 -> "3" [] n = 4 -> "4"
      [] n = 5 -> "5" [] n = 6 -> "6" [] n = 7 -> "7" [] n = 8 -> "8" [] n = 9 -> "9"

\* str.replace(".", "")
replace_dots(s) == SelectSeq(s, LAMBDA c : c # ".")

\* str.isdigit(): not empty and every character a digit
isdigit(s) == s # << >> /\ \A i \in DOMAIN s : s[i] \in Digits

CountOf(s, ch) == Cardinality({i \in DOMAIN s : s[i] = ch})

\* float(s) for a text of digits and dots that holds a digit: Python parses
\* it when it holds at most one dot, and raises ValueError otherwise.
float_parses(s) == CountOf(s, ".") <= 1

\* The digits before the first dot (all of them when there is no dot).
IntegerDigits(s) ==
    LET dots == {i \in DOMAIN s : s[i] = "."}
    IN  IF dots = {} THEN s ELSE SubSeq(s, 1, Min(dots) - 1)

RECURSIVE DecimalValue(_)
DecimalValue(s) ==
    IF s = << >> THEN 0
    ELSE 10 * DecimalValue(SubSeq(s, 1, Len(s) - 1)) + DigitVal(s[Len(s)])

\* str(n) for an integer n >= 0
RECURSIVE str_int(_)
str_int(n) ==
    IF n < 10 THEN << DigitChar(n) >>
    ELSE str_int(n \div 10) \o << DigitChar(n % 10) >>

\* int(float(s)) for a text that float() parses: the value of its integer part
int_float(s) == DecimalValue(IntegerDigits(s))

ZFillWidth == 6

RECURSIVE zfill(_, _)
zfill(s, width) == IF Len(s) >= width THEN s ELSE zfill(<< "0" >> \o s, width)

\* lambda x: str(int(float(x))) if pd.notna(x) and
\*           str(x).replace(".", "").isdigit() else "0"
supplier_lambda(x) ==
    IF ~x.na /\ isdigit(replace_dots(x.s))
    THEN IF float_parses(x.s)
         THEN [state |-> "ok", s |-> str_int(int_float(x.s))]
         ELSE [state |-> "ValueError", s |-> << >>]
    ELSE [state |-> "ok", s |-> << "0" >>]

\* .apply(lambda).str.zfill(6) on one cell
normalize_supplier(x) ==
    LET r == supplier_lambda(x)
    IN  IF r.state = "ok" THEN [r EXCEPT !.s = zfill(r.s, ZFillWidth)] ELSE r


\* pd.to_numeric(column, errors="coerce").fillna(0) of one cell: a number is
\* kept, a text of digits is parsed, and a missing value or a text that is
\* no number becomes 0.  (The sample texts are runs of digits or words.)
fillna_0(cell) ==
    IF "s" \in DOMAIN cell
    THEN IF ~cell.na /\ isdigit(cell.s) THEN Num(DecimalValue(cell.s)) ELSE Num(0)
    ELSE IF cell.na THEN Num(0) ELSE cell
\* Python's order of two strings: by code points, a proper prefix first.
RECURSIVE str_less(_, _)
str_less(a, b) ==
    IF b = << >> THEN FALSE
    ELSE IF a = << >> THEN TRUE
    ELSE IF a[1] # b[1] THEN ord(a[1]) < ord(b[1])
    ELSE str_less(Tail(a), Tail(b))

\* " | ".join(parts)
RECURSIVE join(_, _)
join(sep, parts) ==
    IF parts = << >> THEN << >>
    ELSE IF Len(parts) = 1 THEN parts[1]
    ELSE parts[1] \o sep \o join(sep, Tail(parts))

StartsWith(s, prefix) ==
    Len(s) >= Len(prefix) /\ SubSeq(s, 1, Len(prefix)) = prefix

\* key.split(" | ")
RECURSIVE split_from(_, _, _)
split_from(s, sep, current) ==
    IF s = << >> THEN << current >>
    ELSE IF StartsWith(s, sep)
         THEN << current >> \o split_from(SubSeq(s, Len(sep) + 1, Len(s)), sep, << >>)
         ELSE split_from(Tail(s), sep, Append(current, s[1]))

split(s, sep) == split_from(s, sep, << >>)

\* brand_df[existing_pivot_cols].astype(str).agg(" | ".join, axis=1)
pivot_key_cols == << "Channel", "Pricing Type", "Deal Class", "Purchase Quantity" >>

\* Series.astype(str) of one cell: a missing cell becomes the text "nan".
astype_str(cell) == IF cell.na THEN << "n", "a", "n" >> ELSE cell.s

pivot_key(row) ==
    join(pivot_key_separator,
         [i \in DOMAIN pivot_key_cols |-> astype_str(row[pivot_key_cols[i]])])

\* pivot_key_sort_key (src/app.py:1139-1173)
UnknownRank == 99
UnknownQty == 9999

channel_order(channel) ==
    IF channel = str_Retail THEN 0 ELSE IF channel = str_OP THEN 1 ELSE UnknownRank

pricing_order(pricing_type) ==
    IF pricing_type = str_Level_Pricing THEN 0
    ELSE IF pricing_type = str_Deal_Pricing THEN 1 ELSE UnknownRank

deal_class_order ==
    << str_Level_Pricing, str_EVD_Straight, str_Close_Straight, str_Promo_Straight,
       str_EVD_Special, str_Promo_Special, str_InvRed_Straight, str_InvRed_Special >>

deal_class_val(deal_class) ==
    IF deal_class \in Range(deal_class_order)
    THEN Min({i \in DOMAIN deal_class_order : deal_class_order[i] = deal_class}) - 1
    ELSE UnknownRank

\* re.match(r"(\d+)", purchase_qty): the leading run of digits
LeadingDigits(s) ==
    LET stops == {i \in DOMAIN s : s[i] \notin Digits}
    IN  IF stops = {} THEN s ELSE SubSeq(s, 1, Min(stops) - 1)

qty_val(purchase_qty) ==
    IF LeadingDigits(purchase_qty) = << >> THEN UnknownQty
    ELSE DecimalValue(LeadingDigits(purchase_qty))

pivot_key_sort_key(key) ==
    LET parts == split(key, pivot_key_separator)
        part(i) == IF Len(parts) >= i THEN parts[i] ELSE << >>
    IN  << channel_order(part(1)), pricing_order(part(2)),
           deal_class_val(part(3)), qty_val(part(4)) >>

\* Python's order of two tuples of integers of the same length
RECURSIVE tuple_less(_, _)
tuple_less(a, b) ==
    IF a = << >> THEN FALSE
    ELSE IF a[1] # b[1] THEN a[1] < b[1]
    ELSE tuple_less(Tail(a), Tail(b))

\* sorted(cols, key=pivot_key_sort_key): stable, equal keys keep their order
RECURSIVE insert_sorted(_, _)
insert_sorted(sorted_cols, col) ==
    IF sorted_cols = << >> THEN << col >>
    ELSE IF tuple_less(pivot_key_sort_key(col), pivot_key_sort_key(sorted_cols[Len(sorted_cols)]))
         THEN Append(insert_sorted(SubSeq(sorted_cols, 1, Len(sorted_cols) - 1), col),
                     sorted_cols[Len(sorted_cols)])
         ELSE Append(sorted_cols, col)

\* The columns left in the order pivot_table gave them
in_pivot_table_order(cols) == cols

RECURSIVE sorted_by_sort_key(_)
sorted_by_sort_key(cols) ==
    IF cols = << >> THEN << >>
    ELSE insert_sorted(sorted_by_sort_key(SubSeq(cols, 1, Len(cols) - 1)), cols[Len(cols)])

\* The texts of a set in Python's string order.
RECURSIVE sorted_strings(_)
sorted_strings(S) ==
    IF S = {} THEN << >>
    ELSE LET least == CHOOSE x \in S : \A y \in S \ {x} : str_less(x, y)
         IN  << least >> \o sorted_strings(S \ {least})

\* The distinct texts of a sequence in the order of their first appearance.
RECURSIVE unique_in_order(_)
unique_in_order(keys) ==
    IF keys = << >> THEN << >>
    ELSE LET front == unique_in_order(SubSeq(keys, 1, Len(keys) - 1))
         IN  IF keys[Len(keys)] \in Range(front) THEN front
             ELSE Append(front, keys[Len(keys)])

\* The pivot columns in the order of the rows that first carry them.
pivot_table_columns_unsorted(rows) ==
    unique_in_order([i \in DOMAIN rows |-> pivot_key(rows[i])])

\* brand_melted.pivot_table(..., columns="Pivot Key", aggfunc="first"): the
\* column labels are the distinct pivot keys of the rows, sorted as strings.
pivot_table_columns(rows) ==
    sorted_strings({pivot_key(rows[i]) : i \in DOMAIN rows})

\* pivot_cols and sorted_pivot_cols of src/app.py:1132-1174
brand_pivot_columns(rows) == sorted_by_sort_key(pivot_table_columns(rows))


\* Lines 1175-1178: the columns of the pivoted sheet
identity_cols ==
    << "Price Group", "Price Group Description", "Units Per Case", "Product Cost Breakdown" >>

pivot_sheet_columns(sorted_cols) == identity_cols \o sorted_cols
(***************************************************************************)
(* process_data: merge of the catalogs and the rows of the vendor          *)
(* (src/app.py:406-448)                                                    *)
(***************************************************************************)
cols_to_merge ==
    { "Supplier", "Price Group #", "Price Group Description", "FOB", "SPA",
      "Miscellaneous", "Land Freight", "Ocean Freight", "Federal Tax",
      "Broker Charge", "Bulk Whiskey Fee", "Duty", "Tariffs Per Case",
      "Consolidate Fee", "Gallonage tax per case pd to Vendor",
      "Gallonage tax per case Pd to State",
      "Gallonage tax Volume based Pd to State", "Total", "Mov Avg 7210",
      "Stock in bottles", "Stock in Cases", "Mrp Controller" }

existing_cols_to_merge(zpur) == cols_to_merge \cap zpur.columns

\* The columns of the catalogs that hold text; every other column holds
\* numbers.
TextColumns ==
    { "SAP Product ID", "Material", "Supplier", "Brand", "Price Group",
      "Price Group Description", "Price Group Description_x",
      "Price Group Description_y", "Pricing Type", "Deal ID", "Deal Class",
      "Deal Description", "Trade Channel ID", "Channel", "Purchase Quantity" }

\* The cell a left merge puts where the right table has no matching row.
null_of(col) == IF col \in TextColumns THEN Missing ELSE NaN

\* PB.merge(ZPUR[["Material"] + existing_cols_to_merge],
\*          left_on="SAP Product ID", right_on="Material", how="left")
\*   .drop(columns=["Material"])
\* A column of both tables ("Price Group Description") gets the suffixes _x
\* and _y; the sample catalogs share no other column.
merge(pb, zpur) ==
    LET shared == "Price Group Description" \in pb.columns \cap existing_cols_to_merge(zpur)
        left == IF shared
                THEN rename(pb, "Price Group Description", "Price Group Description_x")
                ELSE pb
        right == IF shared
                 THEN rename(select(zpur, {"Material"} \cup existing_cols_to_merge(zpur)),
                             "Price Group Description", "Price Group Description_y")
                 ELSE select(zpur, {"Material"} \cup existing_cols_to_merge(zpur))
        added == right.columns \ {"Material"}
        matches(row) == SelectSeq(right.rows,
                                  LAMBDA z : z["Material"] = row["SAP Product ID"])
        joined(row) ==
            IF matches(row) = << >>
            THEN << [c \in left.columns \cup added |->
                        IF c \in added THEN null_of(c) ELSE row[c]] >>
            ELSE [k \in DOMAIN matches(row) |->
                     [c \in left.columns \cup added |->
                        IF c \in added THEN matches(row)[k][c] ELSE row[c]]]
    IN  [columns |-> left.columns \cup added,
         rows |-> Flatten([i \in DOMAIN left.rows |-> joined(left.rows[i])])]

\* Lines 442-444 on the whole column: the exception of one cell leaves apply.
normalize_supplier_column(t) ==
    IF \E i \in DOMAIN t.rows : normalize_supplier(t.rows[i]["Supplier"]).state = "ValueError"
    THEN [state |-> "ValueError", table |-> t]
    ELSE [state |-> "ok",
          table |-> Assign(t, "Supplier",
                           LAMBDA row : Text(normalize_supplier(row["Supplier"]).s))]

\* A vendor filter that keeps every row.
rows_of_every_vendor(t, vendor) == t

\* PB_merged[PB_merged["Supplier"] == vendor_id]
rows_of_vendor(t, vendor) == where(t, LAMBDA row : row["Supplier"] = Text(vendor))

\* Lines 449-454 for a price book without a "Vendor" column, and line 645
\* without the time stamp: the name is made of word characters only.
vendor_name_sanitized(vendor) == str_Vendor_ \o vendor

filename_of(vendor) == [vendor_id |-> vendor, vendor_name |-> vendor_name_sanitized(vendor)]

(***************************************************************************)
(* process_data: the pricing rows PW (src/app.py:511-600)                  *)
(***************************************************************************)
cols_to_drop_PW ==
    { "Vendor", "Group Name", "Size", "Product Name", "SAP Product ID",
      "UPC Bottle", "UPC Cases", "UPC Sleeve", "Business Manager Detail",
      "Chain Name", "Supplier", "Price Group #", "Price Group Description_y",
      "FOB", "SPA", "Miscellaneous", "Land Freight", "Ocean Freight",
      "Federal Tax", "Broker Charge", "Bulk Whiskey Fee", "Duty",
      "Tariffs Per Case", "Consolidate Fee",
      "Gallonage tax per case pd to Vendor",
      "Gallonage tax per case Pd to State",
      "Gallonage tax Volume based Pd to State", "Stock in bottles",
      "Mrp Controller" }

\* str.strip() of a text
RECURSIVE lstrip(_)
lstrip(s) == IF s # << >> /\ Head(s) = " " THEN lstrip(Tail(s)) ELSE s

RECURSIVE rstrip(_)
rstrip(s) ==
    IF s # << >> /\ s[Len(s)] = " " THEN rstrip(SubSeq(s, 1, Len(s) - 1)) ELSE s

strip(s) == lstrip(rstrip(s))

values_to_exclude_pricing_type == {str_Volume_Incentives, str_Chain_Pricing}

values_to_exclude_TC ==
    { << "C" >> \o str_int(n) : n \in (2..15) \cup (17..19) }

values_to_exclude_PQ == { << "0" >>, << "0", " ", "C", "S", "E" >>, << "0", " ", "E", "A" >> }

\* Series.isin(values) of one cell of a text column
isin(cell, values) == ~cell.na /\ cell.s \in values

pricing_type_kept(row) ==
    /\ ~row["Pricing Type"].na
    /\ strip(astype_str(row["Pricing Type"])) # << >>
    /\ ~isin(row["Pricing Type"], values_to_exclude_pricing_type)

trade_channel_kept(row) == ~isin(row["Trade Channel ID"], values_to_exclude_TC)

purchase_quantity_kept(row) ==
    LET clean == strip(astype_str(row["Purchase Quantity"]))
    IN  clean \notin values_to_exclude_PQ /\ clean # << >>

\* Lines 592-593: astype(str).str.strip(), then
\* replace({"C1": "Retail", "C16": "OP", "": "OP", "nan": "OP"})
channel_of(cell) ==
    LET s == strip(astype_str(cell))
    IN  IF s = << "C", "1" >> THEN Text(str_Retail)
        ELSE IF s \in { << "C", "1", "6" >>, << >>, << "n", "a", "n" >> } THEN Text(str_OP)
        ELSE Text(s)

\* pd.to_datetime(column, errors="coerce").dt.date of one cell: a date is its
\* day number, anything else becomes NaT.
to_date(cell) == IF "n" \in DOMAIN cell /\ ~cell.na THEN cell ELSE NaN

\* The columns lines 544-593 subscript without testing for them.
PW_required == << "Price Group", "Pricing Type", "Trade Channel ID", "Purchase Quantity" >>

\* Lines 542-600.  The result is the table, or the KeyError of the first
\* subscript of a column the table does not have.
pricing_rows(pb_input) ==
    LET dropped == drop(pb_input, cols_to_drop_PW)
        absent == SelectSeq(PW_required, LAMBDA c : c \notin dropped.columns)
        filtered ==
            where(where(where(where(dropped,
                LAMBDA row : ~row["Price Group"].na),
                pricing_type_kept),
                trade_channel_kept),
                purchase_quantity_kept)
        renamed ==
            rename(rename(rename(rename(rename(rename(filtered,
                "Price Group Description_x", "Price Group Description"),
                "Trade Channel ID", "Channel"),
                "List Price", "List Case"),
                "Total", "Negotiated Cost"),
                "Mov Avg 7210", "Avg Cost"),
                "Stock in Cases", "Cases OH")
        mapped == Assign(renamed, "Channel", LAMBDA row : channel_of(row["Channel"]))
        dated(t, c) == IF c \in t.columns THEN Assign(t, c, LAMBDA row : to_date(row[c])) ELSE t
    IN  IF absent # << >>
        THEN [state |-> "KeyError", column |-> Head(absent), table |-> dropped]
        ELSE [state |-> "ok", column |-> "",
              table |-> dated(dated(mapped, "Start Date"), "End Date")]

(***************************************************************************)
(* process_data: inventory-weighted average cost (src/app.py:601-639)      *)
(***************************************************************************)
RECURSIVE sum(_)
sum(cells) == IF cells = << >> THEN Num(0) ELSE Plus(Head(cells), sum(Tail(cells)))

column(rows, c) == [i \in DOMAIN rows |-> rows[i][c]]

\* The values of column c in their order of first appearance.
unique(rows, c) ==
    LET firsts == {i \in DOMAIN rows : \A j \in 1..(i - 1) : rows[j][c] # rows[i][c]}
    IN  column(RowsAt(rows, firsts), c)

\* The lambda of lines 609-614.  It subscripts its argument by column names.
\* On a frame x that selects columns; on a Series x, whose labels are row
\* labels, the first subscript raises KeyError.
weighted_avg_lambda(x) ==
    IF x.kind = "Series"
    THEN [state |-> "KeyError", value |-> NaN]
    ELSE [state |-> "ok",
          value |->
            IF sum(column(x.rows, "FSV_Weighted_Denominator_Temp")) # Num(0)
            THEN Over(sum(column(x.rows, "FSV_Weighted_Numerator_Temp")),
                      sum(column(x.rows, "FSV_Weighted_Denominator_Temp")))
            ELSE IF x.rows # << >> THEN x.rows[1]["Avg Cost"] ELSE Num(0)]

group_rows(t, key, value) == SelectSeq(t.rows, LAMBDA row : row[key] = value)

\* PW.groupby("Price Group").apply(lambda) of src/PW Project/app.py:222: the
\* lambda receives the frame of each group.
weighted_avg_fsv_global(t) ==
    [state |-> "ok",
     groups |-> [g \in Range(unique(t.rows, "Price Group")) |->
                    weighted_avg_lambda([kind |-> "DataFrame",
                                         rows |-> group_rows(t, "Price Group", g)]).value]]

\* PW.groupby("Price Group").agg(lambda)[...] of lines 608-615: with one
\* grouping key the lambda receives, group by group, each column of the group
\* as a Series.  Rows whose key is missing belong to no group.
weighted_avg_series(t) ==
    LET keys == {g \in Range(unique(t.rows, "Price Group")) : ~g.na}
        call(g) == weighted_avg_lambda([kind |-> "Series",
                                        rows |-> group_rows(t, "Price Group", g)])
    IN  IF \E g \in keys : call(g).state = "KeyError"
        THEN [state |-> "KeyError", groups |-> << >>]
        ELSE [state |-> "ok", groups |-> [g \in keys |-> call(g).value]]

\* Lines 601-639.  On a table without rows the aggregation has no group to
\* call the lambda on, and whether line 615 then finds its column depends on
\* the pandas release: `empty_raises` is that outcome.
weighted_average(pw, empty_raises) ==
    IF "Cases OH" \in pw.columns /\ "Avg Cost" \in pw.columns
    THEN LET coerced == Assign(Assign(pw, "Avg Cost", LAMBDA row : fillna_0(row["Avg Cost"])),
                               "Cases OH", LAMBDA row : fillna_0(row["Cases OH"]))
             temp == Assign(Assign(coerced, "FSV_Weighted_Numerator_Temp",
                                   LAMBDA row : Times(row["Avg Cost"], row["Cases OH"])),
                            "FSV_Weighted_Denominator_Temp", LAMBDA row : row["Cases OH"])
             series == IF temp.rows = << >> /\ empty_raises
                       THEN [state |-> "KeyError", groups |-> << >>]
                       ELSE weighted_avg_series(temp)
         IN  IF series.state = "ok"
             THEN [state |-> "ok",
                   table |-> drop(Assign(temp, "Avg Cost",
                                         LAMBDA row :
                                            IF row["Price Group"] \in DOMAIN series.groups
                                            THEN series.groups[row["Price Group"]]
                                            ELSE row["Avg Cost"]),
                                  {"FSV_Weighted_Numerator_Temp",
                                   "FSV_Weighted_Denominator_Temp"})]
             ELSE [state |-> "ok", table |-> temp]
    ELSE IF "Avg Cost" \in pw.columns
         THEN [state |-> "ok", table |-> Assign(pw, "Avg Cost", LAMBDA row : fillna_0(row["Avg Cost"]))]
         ELSE [state |-> "KeyError", table |-> pw]

\* Line 640
not_combo(row) ==
    ~(~row["Price Group Description"].na /\ StartsWith(row["Price Group Description"].s, str_COMBO))

(***************************************************************************)
(* calculate_gp2_with_validation (src/app.py:117-163)                      *)
(***************************************************************************)
required_cols(price_col) == << price_col, "Negotiated Cost", "Avg Cost", "Chargeback" >>

\* Lines 120-128 for one column: coerced to numbers with 0 for what is not
\* one, or created as a column of 0.0.
validated_col(t, col) ==
    IF col \in t.columns
    THEN Assign(t, col, LAMBDA row : fillna_0(row[col]))
    ELSE Assign(t, col, LAMBDA row : Num(0))

\* A margin that adds the chargeback to the cost.
calc_gp2_adding_chargeback(row, cost_col, price_col) ==
    LET price == row[price_col]
        cost == row[cost_col]
        chargeback == row["Chargeback"]
    IN  IF price # Num(0)
        THEN Over(Minus(price, Plus(cost, chargeback)), price)
        ELSE NaN

\* calc_gp2 (lines 132-151).  The values are finite numbers, so the result of
\* the division is a number.
calc_gp2(row, cost_col, price_col) ==
    LET price == row[price_col]
        cost == row[cost_col]
        chargeback == row["Chargeback"]
    IN  IF price # Num(0)
        THEN Over(Minus(price, Minus(cost, chargeback)), price)
        ELSE NaN

eq_0_all(t, col) == \A i \in DOMAIN t.rows : t.rows[i][col] = Num(0)

calculate_gp2_with_validation(t, skip_gp2_if_no_price, price_col) ==
    LET cols == required_cols(price_col)
        validated == validated_col(validated_col(validated_col(validated_col(t,
                        cols[1]), cols[2]), cols[3]), cols[4])
    IN  IF skip_gp2_if_no_price
           /\ (price_col \notin validated.columns \/ eq_0_all(validated, price_col))
        THEN validated
        ELSE Assign(Assign(validated, "GP2 - Negotiated Cost",
                           LAMBDA row : calc_gp2(row, "Negotiated Cost", price_col)),
                    "GP2 - Avg Cost", LAMBDA row : calc_gp2(row, "Avg Cost", price_col))

(***************************************************************************)
(* process_data: the per-row tables of the workbook (src/app.py:739-956,   *)
(* 1014-1034).  The same preparation is written out three times: for the   *)
(* below-threshold sheet, the deal sheet and every brand.                  *)
(***************************************************************************)
numeric_cols == << "Units Per Case", "Case Price", "Negotiated Cost", "Chargeback", "List Case" >>

RECURSIVE to_numeric(_, _)
to_numeric(t, cols) ==
    IF cols = << >> THEN t
    ELSE to_numeric(IF Head(cols) \in t.columns
                    THEN Assign(t, Head(cols), LAMBDA row : fillna_0(row[Head(cols)]))
                    ELSE t,
                    Tail(cols))

\* lambda row: row[col] / row["Units Per Case"]
\*             if row["Units Per Case"] != 0 else pd.NA
per_bottle_or_zero(row, col) ==
    IF row["Units Per Case"] # Num(0) THEN Over(row[col], row["Units Per Case"]) ELSE Num(0)

per_bottle(row, col) ==
    IF row["Units Per Case"] # Num(0) THEN Over(row[col], row["Units Per Case"]) ELSE NaN

\* The sample price books carry "List Price", "Case Price" and
\* "Units Per Case", which the two lambdas subscript.
with_gp2(t) ==
    calculate_gp2_with_validation(
        Assign(Assign(to_numeric(t, numeric_cols),
                      "List Bottle", LAMBDA row : per_bottle(row, "List Case")),
               "Bottle Price", LAMBDA row : per_bottle(row, "Case Price")),
        TRUE, "Case Price")

\* A comparison that also holds for a value equal to the threshold.
at_most(cell, threshold) == ~cell.na /\ ~Less(threshold, cell)

\* Lines 758-767.  A comparison with a missing value is False.
below(cell, threshold) == ~cell.na /\ Less(cell, threshold)

is_below_threshold(row, threshold) ==
    \/ below(row["GP2 - Negotiated Cost"], threshold)
    \/ below(row["GP2 - Avg Cost"], threshold)

display_cols ==
    { "Price Group", "Price Group Description", "Pricing Type", "Deal ID",
      "Deal Class", "Purchase Quantity", "Deal Description", "Start Date",
      "End Date", "List Case", "Discount", "Chargeback", "Negotiated Cost",
      "Avg Cost", "List Bottle", "Case Price", "Bottle Price",
      "GP2 - Negotiated Cost", "GP2 - Avg Cost" }

\* Lines 739-767: the rows of the "GP2 Below Threshold" sheet, or the
\* KeyError of line 760 when the GP2 columns were not created.
below_threshold_rows(pw_deduped, threshold) ==
    LET gp2_filtered_df == with_gp2(pw_deduped)
    IN  IF "GP2 - Negotiated Cost" \notin gp2_filtered_df.columns
        THEN [state |-> "KeyError", table |-> gp2_filtered_df]
        ELSE [state |-> "ok",
              table |-> where(gp2_filtered_df,
                              LAMBDA row : is_below_threshold(row, threshold))]

\* Lines 871-877: the relaxed date filter of the deal sheet
date_kept(row, date) ==
    \/ row["Start Date"].na
    \/ row["End Date"].na
    \/ ~Less(date, row["Start Date"])

\* The order of sort_values on two text cells: missing values last.
cell_less(a, b) == ~a.na /\ (b.na \/ str_less(a.s, b.s))

RECURSIVE row_less(_, _, _)
row_less(a, b, by) ==
    /\ by # << >>
    /\ \/ cell_less(a[Head(by)], b[Head(by)])
       \/ a[Head(by)] = b[Head(by)] /\ row_less(a, b, Tail(by))

RECURSIVE insert_row(_, _, _)
insert_row(sorted_rows, row, by) ==
    IF sorted_rows = << >> THEN << row >>
    ELSE IF row_less(row, Head(sorted_rows), by) THEN << row >> \o sorted_rows
    ELSE << Head(sorted_rows) >> \o insert_row(Tail(sorted_rows), row, by)

\* DataFrame.sort_values(by) on text columns: stable, ascending.
RECURSIVE sort_values(_, _)
sort_values(rows, by) ==
    IF rows = << >> THEN << >>
    ELSE insert_row(sort_values(SubSeq(rows, 1, Len(rows) - 1), by), rows[Len(rows)], by)

\* Lines 840-913: the rows of the "Pricing by Deal ID" sheet, or the KeyError
\* of line 912 on a table with rows and without one of the sort columns.
deal_id_rows(pw_deduped, date) ==
    LET deal_id_df == with_gp2(pw_deduped)
        filtered == IF {"Start Date", "End Date"} \subseteq deal_id_df.columns
                    THEN where(deal_id_df, LAMBDA row : date_kept(row, date))
                    ELSE deal_id_df
        output == select(filtered, display_cols)
    IN  IF output.rows = << >> THEN [state |-> "ok", table |-> output]
        ELSE IF ~({"Deal ID", "Deal Description"} \subseteq output.columns)
        THEN [state |-> "KeyError", table |-> output]
        ELSE [state |-> "ok", table |-> [output EXCEPT !.rows =
                                sort_values(output.rows, << "Deal ID", "Deal Description" >>)]]

(***************************************************************************)
(* process_data: the workbook (src/app.py:649, 797, 913, 957, 1002, 1182,  *)
(* 1319, 1327, 1332)                                                       *)
(***************************************************************************)
\* openpyxl refuses a sheet title that holds one of these characters.
invalid_title_chars == {"\\", "*", "?", ":", "/", "[", "]"}

\* str(brand)[:31]
safe_brand_name(brand) == SubSeq(brand, 1, IF Len(brand) < 31 THEN Len(brand) ELSE 31)

to_excel_raises(sheet_name) == \E i \in DOMAIN sheet_name : sheet_name[i] \in invalid_title_chars

\* A sheet: its name, what was written into it, the columns and rows of the
\* table written last and, of a pivot sheet, its pivot columns in order.
Sheet(name, kind, columns, rows) ==
    [name |-> name, kind |-> kind, columns |-> columns, rows |-> rows,
     pivot_cols |-> << >>]

\* DataFrame.to_excel(writer, sheet_name=name): a new sheet, or the sheet of
\* that name, which keeps the cells the new table does not cover.  The kind
\* of a sheet lists what was written into it, the latest first.
to_excel(written, sheet) ==
    IF \E i \in DOMAIN written : written[i].name = sheet.name
    THEN [i \in DOMAIN written |->
            IF written[i].name = sheet.name
            THEN [sheet EXCEPT !.kind = sheet.kind \o written[i].kind]
            ELSE written[i]]
    ELSE Append(written, sheet)

(***************************************************************************)
(* process_data: the COGS sheets (src/app.py:455-510, 691, 708-738)        *)
(***************************************************************************)
cols_to_drop_cogs ==
    { "Vendor", "UPC Bottle", "UPC Cases", "UPC Sleeve",
      "Business Manager Detail", "Pricing Type", "Deal ID", "Deal Class",
      "Trade Channel ID", "Chain Name", "Purchase Quantity",
      "Deal Description", "Start Date", "End Date", "Discount", "Chargeback",
      "Case Price", "Bottle Price", "Units Per Case", "Supplier",
      "Price Group #", "Price Group Description_y", "Broker Charge",
      "Bulk Whiskey Fee", "Consolidate Fee", "Mrp Controller" }

\* Lines 483-510 for a price book without a "Size" column and with a
\* "List Price" column.
cogs_of(pb_input) ==
    rename(rename(rename(rename(
        drop_duplicates(drop(pb_input, cols_to_drop_cogs), << "SAP Product ID" >>),
        "Mov Avg 7210", "Avg Cost"),
        "Stock in Cases", "Cases OH"),
        "Price Group Description_x", "Price Group Description"),
        "Total", "Negotiated Cost")

\* A count of the costs of a price group that takes a missing cost for a
\* value of its own.
error_price_groups_counting_missing(cogs) ==
    { g \in {cogs.rows[i]["Price Group"] : i \in DOMAIN cogs.rows} :
        /\ ~g.na
        /\ Cardinality({cogs.rows[i]["Negotiated Cost"] :
                          i \in {j \in DOMAIN cogs.rows :
                                   cogs.rows[j]["Price Group"] = g}}) > 1 }

\* cogs.groupby("Price Group")["Negotiated Cost"].nunique() > 1
error_price_groups(cogs) ==
    { g \in {cogs.rows[i]["Price Group"] : i \in DOMAIN cogs.rows} :
        /\ ~g.na
        /\ Cardinality({cogs.rows[i]["Negotiated Cost"] :
                          i \in {j \in DOMAIN cogs.rows :
                                   /\ cogs.rows[j]["Price Group"] = g
                                   /\ ~cogs.rows[j]["Negotiated Cost"].na}}) > 1 }

\* Lines 691-738: the sheets written from cogs.
cogs_sheets(cogs) ==
    LET first == << Sheet(str_COGS, << "flat" >>, cogs.columns, cogs.rows) >>
        errors == IF {"Price Group", "Negotiated Cost"} \subseteq cogs.columns
                  THEN error_price_groups(cogs) ELSE {}
    IN  IF errors = {} THEN first
        ELSE to_excel(first,
                 Sheet(str_Price_Group_Errors, << "flat" >>, cogs.columns,
                       sort_values(SelectSeq(cogs.rows,
                                             LAMBDA row : row["Price Group"] \in errors),
                                   << "Price Group", "SAP Product ID" >>)))

(***************************************************************************)
(* process_data: the brand loop (src/app.py:998-1336)                      *)
(***************************************************************************)
\* PW_deduped["Brand"].dropna().unique()
brand_names(pw_deduped) ==
    LET cells == SelectSeq(unique(pw_deduped.rows, "Brand"), LAMBDA cell : ~cell.na)
    IN  [i \in DOMAIN cells |-> cells[i].s]

\* Lines 1010-1034: the rows of one brand, with their GP2 columns.
brand_table(pw_deduped, brand) ==
    with_gp2(where(pw_deduped, LAMBDA row : row["Brand"] = Text(brand)))

existing_pivot_cols(t) == SelectSeq(pivot_key_cols, LAMBDA col : col \in t.columns)

\* Lines 1040-1182: the pivot sheet of a brand whose table has the four
\* pivot columns.
pivot_sheet(brand, t) ==
    LET mapped == Assign(t, "Channel", LAMBDA row : channel_of(row["Channel"]))
    IN  [Sheet(safe_brand_name(brand), << "pivot" >>, mapped.columns, mapped.rows)
            EXCEPT !.pivot_cols = brand_pivot_columns(mapped.rows)]

\* Lines 1317-1319 and 1325-1327: the flat sheet of a brand.
flat_sheet(brand, t) ==
    Sheet(safe_brand_name(brand), << "flat" >>, display_cols \cap t.columns,
          select(t, display_cols).rows)

\* One iteration of the loop.  `failure` is where the try block raised:
\* "none", "pivot" (before brand_pivot.to_excel) or "format" (after it); a
\* sheet title openpyxl refuses makes every to_excel of the iteration raise.
\* The result is the sheets written and whether an exception left the loop.
brand_iteration(written, brand, t, failure) ==
    LET refused == to_excel_raises(safe_brand_name(brand))
    IN  IF Len(existing_pivot_cols(t)) = 4
        THEN IF failure = "none" /\ ~refused
             THEN [state |-> "ok", sheets |-> to_excel(written, pivot_sheet(brand, t))]
             ELSE IF refused
             THEN [state |-> "ValueError", sheets |-> written]
             ELSE IF failure = "pivot"
             THEN [state |-> "ok", sheets |-> to_excel(written, flat_sheet(brand, t))]
             ELSE [state |-> "ok",
                   sheets |-> to_excel(to_excel(written, pivot_sheet(brand, t)),
                                       flat_sheet(brand, t))]
        ELSE IF refused
             THEN [state |-> "ValueError", sheets |-> written]
             ELSE [state |-> "ok", sheets |-> to_excel(written, flat_sheet(brand, t))]


(***************************************************************************)
(* The rows of a brand's pivoted sheet (src/app.py:1052-1130)              *)
(***************************************************************************)
\* Lines 1064-1083
pivot_value_vars ==
    << "Negotiated Cost", "Avg Cost", "List Case", "List Bottle", "Discount",
       "Case Price", "Bottle Price", "Chargeback", "GP2 - Negotiated Cost",
       "GP2 - Avg Cost", "Start Date", "End Date", "Deal ID", "Deal Description" >>

value_vars(columns) == SelectSeq(pivot_value_vars, LAMBDA col : col \in columns)

\* Line 1123
group_cols == << "Price Group", "Price Group Description", "Units Per Case" >>

\* Lines 1041-1044: the channel codes mapped before the pivot key is built
with_channel(rows) ==
    [i \in DOMAIN rows |-> SetCell(rows[i], "Channel", channel_of(rows[i]["Channel"]))]

\* Lines 1086-1107: melt and pivot_table.  An index entry is the three group
\* cells of a row and a value column; groupby drops the entries with a
\* missing group cell, and dropna the entries whose values are all missing.
pivot_index(rows, columns) ==
    UNION { { [group |-> [c \in Range(group_cols) |-> rows[i][c]], breakdown |-> v] :
                v \in {w \in Range(value_vars(columns)) : \E k \in DOMAIN rows :
                          /\ \A c \in Range(group_cols) : rows[k][c] = rows[i][c]
                          /\ ~rows[k][w].na} } :
            i \in {k \in DOMAIN rows : \A c \in Range(group_cols) : ~rows[k][c].na} }

\* aggfunc="first": the first value of the entry under a pivot key that is
\* not missing.
first_value(rows, entry, label) ==
    LET found == {k \in DOMAIN rows :
                     /\ \A c \in Range(group_cols) : rows[k][c] = entry.group[c]
                     /\ pivot_key(rows[k]) = label
                     /\ ~rows[k][entry.breakdown].na}
    IN  IF found = {} THEN NaN ELSE rows[Min(found)][entry.breakdown]

\* One row of brand_pivot after reset_index: the group cells, the value
\* column's name and one cell for each pivot key.
pivot_row(rows, entry) ==
    [c \in Range(group_cols) \cup {"Product Cost Breakdown", "values"} |->
        CASE c = "Product Cost Breakdown" -> entry.breakdown
          [] c = "values" -> [label \in {pivot_key(rows[k]) : k \in DOMAIN rows} |->
                                 first_value(rows, entry, label)]
          [] OTHER -> entry.group[c]]

\* The position of a value column in desired_order (lines 1109-1117).
breakdown_position(name) == Min({k \in DOMAIN pivot_value_vars : pivot_value_vars[k] = name})

\* Lines 1118-1120: the order of sort_values on two rows: by price group and
\* description as texts, by units per case as numbers, by the category.
pivot_row_less(a, b) ==
    IF a["Price Group"] # b["Price Group"]
    THEN str_less(a["Price Group"].s, b["Price Group"].s)
    ELSE IF a["Price Group Description"] # b["Price Group Description"]
    THEN str_less(a["Price Group Description"].s, b["Price Group Description"].s)
    ELSE IF a["Units Per Case"] # b["Units Per Case"]
    THEN Less(a["Units Per Case"], b["Units Per Case"])
    ELSE breakdown_position(a["Product Cost Breakdown"])
            < breakdown_position(b["Product Cost Breakdown"])

RECURSIVE sort_pivot_rows(_)
sort_pivot_rows(S) ==
    IF S = {} THEN << >>
    ELSE LET least == CHOOSE x \in S : \A y \in S \ {x} : pivot_row_less(x, y)
         IN  << least >> \o sort_pivot_rows(S \ {least})

\* Lines 1052-1120: brand_pivot before the repeated cells are blanked
pivot_rows(brand_rows, columns) ==
    LET rows == with_channel(brand_rows)
    IN  sort_pivot_rows({pivot_row(rows, entry) : entry \in pivot_index(rows, columns)})

\* DataFrame.ne of two cells: a missing cell differs from every cell.
cell_ne(a, b) == a.na \/ b.na \/ a # b

\* Lines 1125-1127: the first row is compared with the missing cells shift()
\* puts before it.
block_change_by_price_group(rows, i) ==
    i = 1 \/ cell_ne(rows[i]["Price Group"], rows[i - 1]["Price Group"])

block_change(rows, i) ==
    i = 1 \/ \E c \in Range(group_cols) : cell_ne(rows[i][c], rows[i - 1][c])

\* Lines 1128-1130: Series.where(block_change, "")
blank_repeats(rows) ==
    [i \in DOMAIN rows |->
        [c \in DOMAIN rows[i] |->
            IF c \in Range(group_cols) /\ ~block_change(rows, i)
            THEN Text(<< >>) ELSE rows[i][c]]]

(***************************************************************************)
(* The request handlers index and api_process (src/app.py:1345-1408) and   *)
(* the date parsing at the head of process_data (src/app.py:189-193).      *)
(***************************************************************************)
\* request.form.get(name, "").strip(), str(data.get(name, "")).strip(): a
\* field the request does not have reads as the empty text.
field(fields, name) == IF name \in DOMAIN fields THEN strip(fields[name]) ELSE << >>

\* A test of the vendor id that leaves its length open.
valid_vendor_id_of_any_length(vendor) ==
    isdigit(vendor) /\ StartsWith(vendor, << "3" >>)

\* vendor_id.isdigit() and len(vendor_id) == 6 and vendor_id.startswith("3")
valid_vendor_id(vendor) ==
    isdigit(vendor) /\ Len(vendor) = 6 /\ StartsWith(vendor, << "3" >>)

RECURSIVE Pow10(_)
Pow10(k) == IF k = 0 THEN 1 ELSE 10 * Pow10(k - 1)

\* float(text) for a text of signs, digits, dots and letters: a numeral with
\* an optional sign and at most one dot is the number it writes, "nan" and
\* "inf" are the special values, anything else raises ValueError.
float_str(text) ==
    LET signed == text # << >> /\ text[1] \in {"+", "-"}
        body == IF signed THEN Tail(text) ELSE text
        numeral == /\ \A i \in DOMAIN body : body[i] \in Digits \cup {"."}
                   /\ \E i \in DOMAIN body : body[i] \in Digits
                   /\ CountOf(body, ".") <= 1
        decimals == Len(body) - Len(IntegerDigits(body)) - CountOf(body, ".")
        magnitude == Ratio(DecimalValue(replace_dots(body)), Pow10(decimals))
    IN  IF numeral
        THEN [state |-> "ok", kind |-> "finite",
              value |-> IF signed /\ text[1] = "-" THEN Minus(Num(0), magnitude)
                        ELSE magnitude]
        ELSE IF body = << "n", "a", "n" >>
        THEN [state |-> "ok", kind |-> "nan", value |-> NaN]
        ELSE IF body = << "i", "n", "f" >>
        THEN [state |-> "ok", kind |-> "inf", value |-> NaN]
        ELSE [state |-> "ValueError", kind |-> "none", value |-> NaN]

\* 0 <= gp2_threshold_val <= 1: False for nan and for the infinities
in_unit_interval(f) ==
    f.kind = "finite" /\ ~Less(f.value, Num(0)) /\ ~Less(Num(1), f.value)

\* The try of lines 1360-1365 and 1390-1394: the threshold, or the
\* ValueError that float() or the range test raises.
gp2_threshold_val(text) ==
    IF float_str(text).state = "ok" /\ in_unit_interval(float_str(text))
    THEN [state |-> "ok", value |-> float_str(text).value]
    ELSE [state |-> "ValueError", value |-> NaN]

\* Lines 1354-1366 and 1385-1394: the message of the first test that
\* fails, or no message.
validation_message(fields) ==
    IF field(fields, "email") = << >> \/ field(fields, "password") = << >>
    THEN << "Email and password are required." >>
    ELSE IF ~valid_vendor_id(field(fields, "vendor_id"))
    THEN << "Invalid Vendor ID." >>
    ELSE IF gp2_threshold_val(field(fields, "gp2_threshold")).state = "ValueError"
    THEN << "Invalid GP2 threshold." >>
    ELSE << >>

\* The arguments of process_data(vendor_id, gp2_threshold_val, email,
\* password, date_entry) at lines 1367 and 1395.
process_data_args(fields) ==
    [vendor_id |-> field(fields, "vendor_id"),
     gp2_threshold |-> gp2_threshold_val(field(fields, "gp2_threshold")).value,
     username |-> field(fields, "email"),
     password |-> field(fields, "password"),
     date_entry |-> field(fields, "date_entry")]

is_leap(year) == (year % 4 = 0 /\ year % 100 # 0) \/ year % 400 = 0

days_in_month(year, month) ==
    IF month = 2 THEN (IF is_leap(year) THEN 29 ELSE 28)
    ELSE IF month \in {4, 6, 9, 11} THEN 30 ELSE 31

\* datetime.strptime(text, "%Y-%m-%d").date() for a text without spaces:
\* four digits, one or two digits of a month, one or two digits of a day of
\* that month, with "-" between them; ValueError otherwise.
strptime_date(text) ==
    LET parts == split(text, << "-" >>)
        parsed ==
            /\ Len(parts) = 3
            /\ Len(parts[1]) = 4 /\ isdigit(parts[1]) /\ DecimalValue(parts[1]) >= 1
            /\ Len(parts[2]) \in {1, 2} /\ isdigit(parts[2])
            /\ DecimalValue(parts[2]) \in 1..12
            /\ Len(parts[3]) \in {1, 2} /\ isdigit(parts[3])
            /\ DecimalValue(parts[3]) \in
                   1..days_in_month(DecimalValue(parts[1]), DecimalValue(parts[2]))
    IN  IF parsed
        THEN [state |-> "ok", year |-> DecimalValue(parts[1]),
              month |-> DecimalValue(parts[2]), day |-> DecimalValue(parts[3])]
        ELSE [state |-> "ValueError", year |-> 0, month |-> 0, day |-> 0]

\* What process_data can return or raise for its arguments: the error of
\* lines 190-193 when the date does not parse; after that a filename, one of
\* its other errors, or an exception, as the catalogs have it.
process_data_outcomes(args) ==
    IF strptime_date(args.date_entry).state = "ValueError"
    THEN { ReturnedError("Invalid date format. Use YYYY-MM-DD.", << >>) }
    ELSE { ReturnedFile(filename_of(args.vendor_id)),
           ReturnedError("Vendor ID {vendor_id} not found.", args.vendor_id),
           Raised("KeyError", "GP2 - Negotiated Cost") }

\* index (lines 1346-1373) after the call: the error is flashed, the
\* filename is flashed and redirected to; an exception leaves the handler.
index_response(r) ==
    IF r.kind = "raised" THEN [kind |-> "exception", message |-> << >>]
    ELSE IF r.kind = "error"
    THEN [kind |-> "flash error", message |-> << r.value[1] >>]
    ELSE [kind |-> "flash success",
          message |-> << "Processing complete! Download: {filename}" >>]

\* api_process (lines 1376-1408) after the call: the error goes out with
\* status 500, and so does an exception, which the outer except catches.
api_response(r) ==
    IF r.kind = "raised"
    THEN [kind |-> "json 500", message |-> << "Server error: {str(e)}" >>]
    ELSE IF r.kind = "error" THEN [kind |-> "json 500", message |-> << r.value[1] >>]
    ELSE [kind |-> "json 200", message |-> << "File generated: {filename}" >>]

(***************************************************************************)
(* process_data: the temporary directory and the loading of the catalogs   *)
(* (src/app.py:165-262 and 1338-1343)                                      *)
(***************************************************************************)
\* str.lower() of one character
lower_char(c) ==
    CASE c = "A" -> "a" [] c = "B" -> "b" [] c = "C" -> "c" [] c = "D" -> "d"
      [] c = "E" -> "e" [] c = "F" -> "f" [] c = "G" -> "g" [] c = "H" -> "h"
      [] c = "I" -> "i" [] c = "J" -> "j" [] c = "K" -> "k" [] c = "L" -> "l"
      [] c = "M" -> "m" [] c = "N" -> "n" [] c = "O" -> "o" [] c = "P" -> "p"
      [] c = "Q" -> "q" [] c = "R" -> "r" [] c = "S" -> "s" [] c = "T" -> "t"
      [] c = "U" -> "u" [] c = "V" -> "v" [] c = "W" -> "w" [] c = "X" -> "x"
      [] c = "Y" -> "y" [] c = "Z" -> "z" [] OTHER -> c

lower(s) == [i \in DOMAIN s |-> lower_char(s[i])]

\* sub in s
contains(s, sub) ==
    \E i \in 0..(Len(s) - Len(sub)) : SubSeq(s, i + 1, i + Len(sub)) = sub

str_vendor_id == << "v", "e", "n", "d", "o", "r", " ", "i", "d" >>

\* Lines 229-233: the index (from 0) of the first row whose first cell holds
\* "vendor id", or -1 for None.
header_row_of(sheet) ==
    LET found == {i \in DOMAIN sheet :
                     contains(lower(strip(astype_str(sheet[i]))), str_vendor_id)}
    IN  IF found = {} THEN -1 ELSE Min(found) - 1

\* pd.read_excel(..., header=k): row k names the columns and the rows after
\* it are the data.
read_excel_header(sheet, k) == SubSeq(sheet, k + 2, Len(sheet))

\* df.iloc[k:].reset_index(drop=True)
iloc_from(rows, k) == SubSeq(rows, k + 1, Len(rows))

\* read_excel alone, without the slice of lines 244-245
chain_below_header(sheet) == read_excel_header(sheet, header_row_of(sheet))

\* Lines 241-245
chain_rows(sheet) ==
    LET header_row == header_row_of(sheet)
        rows == read_excel_header(sheet, header_row)
    IN  IF header_row > 0 THEN iloc_from(rows, header_row) ELSE rows

\* The three catalogs of lines 197-202
catalog_files == {"Price_Book_Full.xlsx", "ZPURCON.xlsx", "Chain_Pricing.xlsx"}

\* A removal of the files that leaves the directory itself
rmtree_leaving_directory == [exists |-> TRUE, files |-> {}]

\* shutil.rmtree(temp_dir) that succeeds
rmtree == [exists |-> FALSE, files |-> {}]
(***************************************************************************)
(* Specification SpecDedup: improved_deduplication applied, once and then  *)
(* again, to every table of at most MaxRows rows over the deduplication    *)
(* columns.                                                                *)
(***************************************************************************)
MaxRows == 3

\* Columns whose cells differ between rows, and columns that hold one value.
VaryingCols == {"Deal ID", "Deal Class", "Channel", "Price Group"}
FixedCols == {"SAP Product ID", "Purchase Quantity", "Start Date", "End Date"}
CellValues == {"a", "b"}

Schemas == {vc \cup fx : vc \in SUBSET VaryingCols, fx \in {{}, FixedCols}}

MkRow(cols, f) == [c \in cols |-> IF c \in VaryingCols THEN f[c] ELSE "a"]

TablesOver(cols) ==
    LET R == {MkRow(cols, f) : f \in [cols \cap VaryingCols -> CellValues]}
    IN  UNION {[1..n -> R] : n \in 0..MaxRows}

InitDedup ==
    /\ IdleNorm
    /\ IdlePivot
    /\ IdlePD
    /\ IdleWeb
    /\ IdleRuns
    /\ IdleLoad
    /\ \E cols \in Schemas : \E rows \in TablesOver(cols) :
          df = [columns |-> cols, rows |-> rows]
    /\ deduped = << >>

Deduplicate ==
    /\ Len(deduped) < 2
    /\ deduped' = Append(deduped,
                         improved_deduplication(IF deduped = << >> THEN df
                                                ELSE deduped[Len(deduped)]))
    /\ UNCHANGED << df, norm_vars, pivot_vars, pd_vars, web_vars, run_vars, load_vars >>

NextDedup == Deduplicate

SpecDedup == InitDedup /\ [][NextDedup]_vars

(***************************************************************************)
(* Specification SpecNorm: the normalization applied to every text of at   *)
(* most MaxSupplierLen characters, to a missing cell and to sample codes.  *)
(***************************************************************************)
MaxSupplierLen == 3

SupplierAlphabet == {"0", "1", "3", ".", "-", "x"}

SampleSuppliers ==
    { << "3", "0", "0", "0", "0", "1", ".", "0" >>,
      << "3", "0", "0", "0", "0", "1" >>,
      << "3", "0", "0", "1", "2", "3" >>,
      << "1", ".", "2", ".", "3" >>,
      << "3", "0", "0", "1", "2", "3", "4" >> }

SupplierCells ==
    {Missing} \cup {Text(s) : s \in SampleSuppliers}
      \cup {Text(s) : s \in UNION {[1..n -> SupplierAlphabet] : n \in 0..MaxSupplierLen}}

InitNorm ==
    /\ IdleDedup
    /\ IdlePivot
    /\ IdlePD
    /\ IdleWeb
    /\ IdleRuns
    /\ IdleLoad
    /\ supplier_cell \in SupplierCells
    /\ supplier_code = [state |-> "idle", s |-> << >>]

NormalizeSupplier ==
    /\ supplier_code.state = "idle"
    /\ supplier_code' = normalize_supplier(supplier_cell)
    /\ UNCHANGED << supplier_cell, dedup_vars, pivot_vars, pd_vars, web_vars, run_vars, load_vars >>

NextNorm == NormalizeSupplier

SpecNorm == InitNorm /\ [][NextNorm]_vars

(***************************************************************************)
(* Specification SpecPivot: the pivot columns of every brand of at most    *)
(* MaxBrandRows rows over the sample dimension values.                     *)
(***************************************************************************)
MaxBrandRows == 2

SampleChannels == {str_Retail, str_OP}
SamplePricingTypes == {str_Deal_Pricing}
SampleDealClasses == {str_X, str_Y, str_EVD_Straight}
SampleQuantities == {str_12_CSE, str_12_EA, str_5_CSE}

BrandRows ==
    { [c \in Range(pivot_key_cols) |->
          CASE c = "Channel" -> Text(ch) [] c = "Pricing Type" -> Text(pt)
            [] c = "Deal Class" -> Text(dc) [] c = "Purchase Quantity" -> Text(pq)] :
        ch \in SampleChannels, pt \in SamplePricingTypes,
        dc \in SampleDealClasses, pq \in SampleQuantities }

InitPivot ==
    /\ IdleDedup
    /\ IdleNorm
    /\ IdlePD
    /\ IdleWeb
    /\ IdleRuns
    /\ IdleLoad
    /\ brand_df \in UNION {[1..n -> BrandRows] : n \in 0..MaxBrandRows}
    /\ pivot_cols = << >>
    /\ sorted_pivot_cols = [state |-> "idle", cols |-> << >>, columns |-> << >>]
    /\ brand_pivot = NoPivot

BuildPivot ==
    /\ sorted_pivot_cols.state = "idle"
    /\ pivot_cols' = pivot_table_columns(brand_df)
    /\ LET sorted_cols == brand_pivot_columns(brand_df)
       IN  sorted_pivot_cols' = [state |-> "sorted", cols |-> sorted_cols,
                                 columns |-> pivot_sheet_columns(sorted_cols)]
    /\ UNCHANGED << brand_df, brand_pivot, dedup_vars, norm_vars, pd_vars, web_vars, run_vars, load_vars >>

NextPivot == BuildPivot

SpecPivot == InitPivot /\ [][NextPivot]_vars

(***************************************************************************)
(* process_data (src/app.py:165-1343) from the merge of the loaded         *)
(* catalogs on, one action per stage.  An exception that no handler of the *)
(* function catches ends it with result.kind = "raised"; the workbook that *)
(* is open at that moment is saved with the sheets written so far.         *)
(***************************************************************************)
Ends(r) ==
    /\ result' = r
    /\ pc' = "done"

\* The columns of the frame chain_output_df starts as (lines 170-187).
chain_output_columns ==
    { "Vendor Id", "Price Group", "Price Group Description", "Chain Name",
      "Start Date", "End Date", "List Price", "Net Price", "Bottle Price",
      "Chargeback", "Negotiated Cost", "Avg Cost", "GP2 - Negotiated Cost",
      "GP2 - Avg Cost" }

\* Lines 406-441
MergeCatalogs ==
    /\ pc = "merge"
    /\ IF existing_cols_to_merge(ZPUR) = {}
       THEN /\ Ends(ReturnedError("No matching columns found for merging data.", << >>))
            /\ UNCHANGED PB_input
       ELSE IF "Material" \notin ZPUR.columns \/ "SAP Product ID" \notin PB.columns
       THEN /\ Ends(Raised("KeyError", "merge"))
            /\ UNCHANGED PB_input
       ELSE IF "Supplier" \notin merge(PB, ZPUR).columns
       THEN /\ Ends(ReturnedError("Supplier column missing in merged data.", << >>))
            /\ PB_input' = merge(PB, ZPUR)
       ELSE /\ PB_input' = merge(PB, ZPUR)
            /\ pc' = "vendor"
            /\ UNCHANGED result
    /\ UNCHANGED << input_vars, PW, PW_deduped, gp2_below_threshold, brands, sheets,
                    output_file >>
    /\ UNCHANGED << dedup_vars, norm_vars, pivot_vars, web_vars, run_vars, load_vars >>

\* Lines 442-448
FilterVendor ==
    /\ pc = "vendor"
    /\ LET normalized == normalize_supplier_column(PB_input)
       IN  IF normalized.state = "ValueError"
           THEN /\ Ends(Raised("ValueError", "Supplier"))
                /\ UNCHANGED PB_input
           ELSE IF rows_of_vendor(normalized.table, vendor_id).rows = << >>
           THEN /\ Ends(ReturnedError("Vendor ID {vendor_id} not found.", vendor_id))
                /\ PB_input' = rows_of_vendor(normalized.table, vendor_id)
           ELSE /\ PB_input' = rows_of_vendor(normalized.table, vendor_id)
                /\ pc' = "pricing"
                /\ UNCHANGED result
    /\ UNCHANGED << input_vars, PW, PW_deduped, gp2_below_threshold, brands, sheets,
                    output_file >>
    /\ UNCHANGED << dedup_vars, norm_vars, pivot_vars, web_vars, run_vars, load_vars >>

\* Lines 511-600
PricingRows ==
    /\ pc = "pricing"
    /\ LET prepared == pricing_rows(PB_input)
       IN  IF prepared.state = "KeyError"
           THEN /\ Ends(Raised("KeyError", prepared.column))
                /\ PW' = prepared.table
           ELSE /\ PW' = prepared.table
                /\ pc' = "average"
                /\ UNCHANGED result
    /\ UNCHANGED << input_vars, PB_input, PW_deduped, gp2_below_threshold, brands, sheets,
                    output_file >>
    /\ UNCHANGED << dedup_vars, norm_vars, pivot_vars, web_vars, run_vars, load_vars >>

\* Lines 601-639
WeightedAverage ==
    /\ pc = "average"
    /\ \E empty_raises \in (IF PW.rows = << >> THEN BOOLEAN ELSE {FALSE}) :
          LET averaged == weighted_average(PW, empty_raises)
          IN  IF averaged.state = "KeyError"
              THEN /\ Ends(Raised("KeyError", "Avg Cost"))
                   /\ UNCHANGED PW
              ELSE /\ PW' = averaged.table
                   /\ pc' = "dedup"
                   /\ UNCHANGED result
    /\ UNCHANGED << input_vars, PB_input, PW_deduped, gp2_below_threshold, brands, sheets,
                    output_file >>
    /\ UNCHANGED << dedup_vars, norm_vars, pivot_vars, web_vars, run_vars, load_vars >>

\* Lines 640-644
Deduplication ==
    /\ pc = "dedup"
    /\ IF "Price Group Description" \notin PW.columns
       THEN /\ Ends(Raised("KeyError", "Price Group Description"))
            /\ UNCHANGED << PW, PW_deduped >>
       ELSE /\ PW' = where(PW, not_combo)
            /\ PW_deduped' = improved_deduplication(where(PW, not_combo))
            /\ pc' = "writer"
            /\ UNCHANGED result
    /\ UNCHANGED << input_vars, PB_input, gp2_below_threshold, brands, sheets, output_file >>
    /\ UNCHANGED << dedup_vars, norm_vars, pivot_vars, web_vars, run_vars, load_vars >>

\* Lines 645-738
OpenWorkbook ==
    /\ pc = "writer"
    /\ output_file' = TRUE
    /\ sheets' = cogs_sheets(cogs_of(PB_input))
    /\ pc' = "below"
    /\ UNCHANGED << input_vars, table_vars, brands, result >>
    /\ UNCHANGED << dedup_vars, norm_vars, pivot_vars, web_vars, run_vars, load_vars >>

\* Lines 739-839
BelowThreshold ==
    /\ pc = "below"
    /\ LET filtered == below_threshold_rows(PW_deduped, gp2_threshold)
       IN  IF filtered.state = "KeyError"
           THEN /\ Ends(Raised("KeyError", "GP2 - Negotiated Cost"))
                /\ UNCHANGED << gp2_below_threshold, sheets >>
           ELSE /\ gp2_below_threshold' = filtered.table
                /\ sheets' = to_excel(sheets,
                      Sheet(str_GP2_Below_Threshold, << "flat" >>,
                            display_cols \cap filtered.table.columns,
                            select(filtered.table, display_cols).rows))
                /\ pc' = "deals"
                /\ UNCHANGED result
    /\ UNCHANGED << input_vars, PB_input, PW, PW_deduped, brands, output_file >>
    /\ UNCHANGED << dedup_vars, norm_vars, pivot_vars, web_vars, run_vars, load_vars >>

\* Lines 840-956
DealSheet ==
    /\ pc = "deals"
    /\ LET deals == deal_id_rows(PW_deduped, date_entry)
       IN  IF deals.state = "KeyError"
           THEN /\ Ends(Raised("KeyError", "Deal ID"))
                /\ UNCHANGED sheets
           ELSE /\ sheets' = to_excel(sheets,
                      Sheet(str_Pricing_by_Deal_ID, << "flat" >>,
                            deals.table.columns, deals.table.rows))
                /\ pc' = "chain"
                /\ UNCHANGED result
    /\ UNCHANGED << input_vars, table_vars, brands, output_file >>
    /\ UNCHANGED << dedup_vars, norm_vars, pivot_vars, web_vars, run_vars, load_vars >>

\* Lines 957-997, for a vendor without chain pricing rows: chain_output_df
\* is the empty frame of line 170.
ChainSheet ==
    /\ pc = "chain"
    /\ sheets' = to_excel(sheets,
          Sheet(str_Chain_Pricing, << "flat" >>, chain_output_columns, << >>))
    /\ pc' = "brands"
    /\ UNCHANGED << input_vars, table_vars, brands, output_file, result >>
    /\ UNCHANGED << dedup_vars, norm_vars, pivot_vars, web_vars, run_vars, load_vars >>

\* Lines 998-1008 and 1330-1336
BrandList ==
    /\ pc = "brands"
    /\ IF "Brand" \notin PW_deduped.columns \/ brand_names(PW_deduped) = << >>
       THEN /\ sheets' = to_excel(sheets, Sheet(str_No_Brands, << "message" >>, {"Message"}, << >>))
            /\ pc' = "return"
            /\ UNCHANGED brands
       ELSE /\ brands' = brand_names(PW_deduped)
            /\ pc' = "brand"
            /\ UNCHANGED sheets
    /\ UNCHANGED << input_vars, table_vars, output_file, result >>
    /\ UNCHANGED << dedup_vars, norm_vars, pivot_vars, web_vars, run_vars, load_vars >>

\* Lines 1008-1329: one iteration of the loop over the brands
BrandSheet ==
    /\ pc = "brand"
    /\ \E failure \in {"none", "pivot", "format"} :
          LET written == brand_iteration(sheets, Head(brands),
                                         brand_table(PW_deduped, Head(brands)), failure)
          IN  /\ sheets' = written.sheets
              /\ IF written.state = "ValueError"
                 THEN /\ Ends(Raised("ValueError", "sheet title"))
                      /\ UNCHANGED brands
                 ELSE /\ brands' = Tail(brands)
                      /\ pc' = IF Tail(brands) = << >> THEN "return" ELSE "brand"
                      /\ UNCHANGED result
    /\ UNCHANGED << input_vars, table_vars, output_file >>
    /\ UNCHANGED << dedup_vars, norm_vars, pivot_vars, web_vars, run_vars, load_vars >>

\* Line 1337
Return ==
    /\ pc = "return"
    /\ Ends(ReturnedFile(filename_of(vendor_id)))
    /\ UNCHANGED << input_vars, table_vars, brands, sheets, output_file >>
    /\ UNCHANGED << dedup_vars, norm_vars, pivot_vars, web_vars, run_vars, load_vars >>

NextPD ==
    \/ MergeCatalogs
    \/ FilterVendor
    \/ PricingRows
    \/ WeightedAverage
    \/ Deduplication
    \/ OpenWorkbook
    \/ BelowThreshold
    \/ DealSheet
    \/ ChainSheet
    \/ BrandList
    \/ BrandSheet
    \/ Return

(***************************************************************************)
(* Specification SpecPD: process_data on sample catalogs of at most        *)
(* MaxPBRows price-book rows, in nine families:  supplier codes and vendor  *)
(* ids, costs and inventories, prices and chargebacks, brands and missing  *)
(* price-book columns, missing cost-catalog columns, pack sizes, copies of *)
(* rows, brands with meeting sheet names, validity windows.                *)
(***************************************************************************)
MaxPBRows == 2

Vendor1 == << "3", "0", "0", "1", "2", "3" >>
Vendor2 == << "3", "0", "0", "0", "0", "1" >>

P1 == Text(<< "P", "1" >>)
P2 == Text(<< "P", "2" >>)
P3 == Text(<< "P", "3" >>)
PG1 == Text(<< "G", "1" >>)
PG2 == Text(<< "G", "2" >>)
BrandX == Text(str_X)
BrandY == Text(str_Y)
BrandSlash == Text(<< "A", "/", "B" >>)

Threshold20 == Ratio(20, 100)
Threshold30 == Ratio(30, 100)

\* A price-book row; the columns that no family varies are fixed, and each
\* product has a deal of its own.
PBRow(pid, brand, pg, pt, tc, pq, dc, price, chargeback) ==
    [c \in { "SAP Product ID", "Brand", "Price Group", "Price Group Description",
             "Pricing Type", "Trade Channel ID", "Purchase Quantity", "Deal Class",
             "Deal ID", "Deal Description", "Start Date", "End Date",
             "List Price", "Units Per Case", "Case Price", "Chargeback" } |->
        CASE c = "SAP Product ID" -> pid
          [] c = "Brand" -> brand
          [] c = "Price Group" -> pg
          [] c = "Price Group Description" -> Text(<< "d" >>)
          [] c = "Pricing Type" -> pt
          [] c = "Trade Channel ID" -> tc
          [] c = "Purchase Quantity" -> pq
          [] c = "Deal Class" -> dc
          [] c = "Deal ID" -> Text(<< "D" >> \o Tail(pid.s))
          [] c = "Deal Description" -> Text(<< "d" >>)
          [] c = "Start Date" -> Num(1)
          [] c = "End Date" -> Num(20)
          [] c = "List Price" -> Num(120)
          [] c = "Units Per Case" -> Num(12)
          [] c = "Case Price" -> price
          [] c = "Chargeback" -> chargeback]

PlainRow(pid, brand, pg, price, chargeback) ==
    PBRow(pid, brand, pg, Text(str_Deal_Pricing), Text(<< "C", "1" >>),
          Text(str_12_CSE), Text(str_X), price, chargeback)

\* A cost-catalog row.
ZRow(material, supplier, total, avg_cost, cases) ==
    [c \in {"Material", "Supplier", "Total", "Mov Avg 7210", "Stock in Cases"} |->
        CASE c = "Material" -> material
          [] c = "Supplier" -> supplier
          [] c = "Total" -> total
          [] c = "Mov Avg 7210" -> avg_cost
          [] c = "Stock in Cases" -> cases]

Table(rows, cols) ==
    [columns |-> cols, rows |-> [i \in DOMAIN rows |-> [c \in cols |-> rows[i][c]]]]

PBColumns == DOMAIN PlainRow(P1, BrandX, PG1, Num(100), Num(5))
ZPURColumns == DOMAIN ZRow(P1, Missing, NaN, NaN, NaN)

UpTo(pool, n) == UNION {[1..k -> pool] : k \in 0..n}

StartsPD ==
    /\ IdleDedup
    /\ IdleNorm
    /\ IdlePivot
    /\ IdleWeb
    /\ IdleRuns
    /\ IdleLoad
    /\ IdleTables
    /\ pc = "merge"
    /\ date_entry = Num(10)

\* Supplier codes of the cost catalog against the vendor id.
SupplierSamples ==
    { Text(Vendor1), Text(Vendor1 \o << ".", "0" >>), Text(Vendor2),
      Text(<< "1", ".", "2", ".", "3" >>), Text(<< "x" >>), Missing }

InitVendors ==
    /\ StartsPD
    /\ vendor_id \in {Vendor1, Vendor2}
    /\ gp2_threshold = Threshold30
    /\ \E s1, s2 \in SupplierSamples :
          ZPUR = Table(<< ZRow(P1, s1, Num(80), Num(80), Num(10)),
                          ZRow(P2, s2, Num(80), Num(80), Num(10)) >>, ZPURColumns)
    /\ \E rows \in UpTo({PlainRow(p, BrandX, PG1, Num(100), Num(5)) : p \in {P1, P2, P3}},
                        MaxPBRows) :
          PB = Table(rows, PBColumns)

\* Costs and inventories of the products of a price group.
InitCosts ==
    /\ StartsPD
    /\ vendor_id = Vendor1
    /\ gp2_threshold = Threshold30
    /\ \E c2 \in {Num(5), Num(8)}, n1 \in {Num(0), Num(10)}, n2 \in {Num(0), Num(20)},
          t2 \in {Num(80), Num(60), NaN} :
          ZPUR = Table(<< ZRow(P1, Text(Vendor1), Num(80), Num(5), n1),
                          ZRow(P2, Text(Vendor1), t2, c2, n2),
                          ZRow(P3, Text(Vendor1), Num(80), Num(5), Num(10)) >>, ZPURColumns)
    /\ \E rows \in UpTo({PlainRow(p, BrandX, g, Num(100), Num(5)) :
                            p \in {P1, P2}, g \in {PG1, PG2}}
                         \cup {PlainRow(P3, BrandX, PG2, Num(100), Num(5))}, MaxPBRows) :
          PB = Table(rows, PBColumns)

\* Prices, chargebacks and thresholds.  improved_deduplication keeps one row
\* of the rows that agree on price group and deal class, so the rows of the
\* second product are of a second price group.
MarginRows ==
    {PlainRow(P1, BrandX, PG1, price, cb) :
        price \in {Num(0), Num(100), NaN}, cb \in {Num(0), Num(5)}}
      \cup {PlainRow(P1, BrandX, PG1, Num(100), NaN)}
      \cup {PlainRow(P2, brand, PG2, price, Num(5)) :
               brand \in {BrandX, BrandY}, price \in {Num(0), Num(100)}}

InitMargins ==
    /\ StartsPD
    /\ vendor_id = Vendor1
    /\ gp2_threshold \in {Threshold20, Threshold30}
    /\ ZPUR = Table(<< ZRow(P1, Text(Vendor1), Num(80), Num(60), Num(10)),
                       ZRow(P2, Text(Vendor1), Num(60), Num(90), Num(10)) >>, ZPURColumns)
    /\ \E rows \in UpTo(MarginRows, MaxPBRows) : PB = Table(rows, PBColumns)

\* Brands, pivot dimensions and price books that lack columns.
BrandRowPool ==
    {PBRow(P1, brand, PG1, Text(str_Deal_Pricing), Text(<< "C", "1" >>), Text(str_12_CSE),
           Text(dc), Num(100), Num(5)) :
        brand \in {BrandX, BrandSlash}, dc \in {str_X, str_Y}}
      \cup {PBRow(P1, Missing, PG1, Text(str_Deal_Pricing), Text(<< "C", "1" >>),
                  Text(str_12_CSE), Text(str_X), Num(100), Num(5))}

OptionalColumns ==
    {"Pricing Type", "Trade Channel ID", "Purchase Quantity", "Deal Class", "Brand"}

InitBrands ==
    /\ StartsPD
    /\ vendor_id = Vendor1
    /\ gp2_threshold = Threshold30
    /\ ZPUR = Table(<< ZRow(P1, Text(Vendor1), Num(80), Num(80), Num(10)) >>, ZPURColumns)
    /\ \E rows \in UpTo(BrandRowPool, MaxPBRows), absent \in SUBSET OptionalColumns :
          PB = Table(rows, PBColumns \ absent)

\* Cost catalogs that lack columns of the merge allow-list.
CatalogColumns == ZPURColumns \ {"Material"}

InitCatalogs ==
    /\ StartsPD
    /\ vendor_id = Vendor1
    /\ gp2_threshold = Threshold30
    /\ \E present \in SUBSET CatalogColumns :
          ZPUR = Table(<< ZRow(P1, Text(Vendor1), Num(80), Num(60), Num(10)),
                          ZRow(P2, Text(Vendor1), Num(60), Num(90), Num(10)) >>,
                       {"Material"} \cup present)
    /\ \E rows \in UpTo({PlainRow(P1, BrandX, PG1, Num(100), Num(5)),
                         PlainRow(P2, BrandX, PG2, Num(100), Num(5))}, MaxPBRows) :
          PB = Table(rows, PBColumns)

\* Pack sizes: a number, zero, a missing value, a word and a text of digits.
PackSizes == {Num(12), Num(0), NaN, Text(str_X), Text(<< "6" >>)}

InitPacks ==
    /\ StartsPD
    /\ vendor_id = Vendor1
    /\ gp2_threshold = Threshold30
    /\ ZPUR = Table(<< ZRow(P1, Text(Vendor1), Num(80), Num(60), Num(10)),
                       ZRow(P2, Text(Vendor1), Num(60), Num(90), Num(10)) >>, ZPURColumns)
    /\ \E rows \in UpTo({SetCell(PlainRow(p[1], BrandX, p[2], Num(100), Num(5)),
                                 "Units Per Case", units) :
                            p \in {<< P1, PG1 >>, << P2, PG2 >>}, units \in PackSizes},
                         MaxPBRows) :
          PB = Table(rows, PBColumns)

\* Two products of one price group and deal class, of which the
\* deduplication keeps the first, followed by extra copies of their rows.
InitCopies ==
    /\ StartsPD
    /\ vendor_id = Vendor1
    /\ gp2_threshold = Threshold30
    /\ \E c2 \in {Num(5), Num(8)}, n1 \in {Num(0), Num(10)}, n2 \in {Num(0), Num(20)} :
          ZPUR = Table(<< ZRow(P1, Text(Vendor1), Num(80), Num(5), n1),
                          ZRow(P2, Text(Vendor1), Num(80), c2, n2) >>, ZPURColumns)
    /\ \E rows \in UpTo({PlainRow(p, BrandX, PG1, Num(100), Num(5)) : p \in {P1, P2}},
                         MaxPBRows - 1) :
          PB = Table(<< PlainRow(P1, BrandX, PG1, Num(100), Num(5)),
                        PlainRow(P2, BrandX, PG1, Num(100), Num(5)) >> \o rows, PBColumns)

\* Brands whose sheet names meet: two names of 32 characters that share
\* their first 31, and a brand called like the first sheet of the workbook.
BrandLongB == Text([i \in 1..31 |-> "a"] \o << "b" >>)
BrandLongC == Text([i \in 1..31 |-> "a"] \o << "c" >>)
BrandCOGS == Text(str_COGS)

InitSheetNames ==
    /\ StartsPD
    /\ vendor_id = Vendor1
    /\ gp2_threshold = Threshold30
    /\ ZPUR = Table(<< ZRow(P1, Text(Vendor1), Num(80), Num(60), Num(10)),
                       ZRow(P2, Text(Vendor1), Num(60), Num(90), Num(10)) >>, ZPURColumns)
    /\ \E rows \in UpTo({PlainRow(P1, BrandLongB, PG1, Num(100), Num(5)),
                         PlainRow(P2, BrandLongC, PG2, Num(100), Num(5)),
                         PlainRow(P1, BrandCOGS, PG1, Num(100), Num(5)),
                         PlainRow(P2, BrandX, PG2, Num(100), Num(5))}, MaxPBRows) :
          PB = Table(rows, PBColumns)

\* Validity windows around the as-of date (day 10): started or not, ended
\* or not, open at either end.
InitDates ==
    /\ StartsPD
    /\ vendor_id = Vendor1
    /\ gp2_threshold = Threshold30
    /\ ZPUR = Table(<< ZRow(P1, Text(Vendor1), Num(80), Num(60), Num(10)),
                       ZRow(P2, Text(Vendor1), Num(60), Num(90), Num(10)) >>, ZPURColumns)
    /\ \E rows \in UpTo({SetCell(SetCell(PlainRow(P1, BrandX, PG1, Num(100), Num(5)),
                                         "Start Date", start), "End Date", end) :
                            start \in {Num(1), Num(15), NaN}, end \in {Num(5), Num(20), NaN}}
                         \cup {PlainRow(P2, BrandX, PG2, Num(100), Num(5))}, MaxPBRows) :
          PB = Table(rows, PBColumns)

InitPD ==
    \/ InitVendors
    \/ InitCosts
    \/ InitMargins
    \/ InitBrands
    \/ InitCatalogs
    \/ InitPacks
    \/ InitCopies
    \/ InitSheetNames
    \/ InitDates

SpecPD == InitPD /\ [][NextPD]_vars


(***************************************************************************)
(* Specification SpecSortKey: sorted(pivot_cols, key=pivot_key_sort_key)   *)
(* (src/app.py:1132-1174) on every list of at most MaxLabels sample        *)
(* labels: pivot keys of four components, recognised or not, and labels of *)
(* fewer or more components.                                               *)
(***************************************************************************)
MaxLabels == 2

Label(parts) == join(pivot_key_separator, parts)

SampleLabels ==
    { Label(<< str_Retail, str_Level_Pricing, str_Level_Pricing, str_12_CSE >>),
      Label(<< str_OP, str_Deal_Pricing, str_EVD_Straight, str_5_CSE >>),
      Label(<< str_OP, str_Deal_Pricing, str_InvRed_Special, str_12_EA >>),
      Label(<< str_X, str_Y, str_X, str_Y >>),
      Label(<< str_Retail, str_Deal_Pricing, str_X, str_12_CSE >>),
      Label(<< str_Retail, str_Level_Pricing >>),
      Label(<< str_Retail >>),
      Label(<< str_X >>),
      Label(<< >>),
      Label(<< str_Retail, str_Deal_Pricing, str_X, str_Y, str_12_CSE >>),
      Label(<< str_Retail, str_Level_Pricing, str_Level_Pricing, str_12_CSE, str_X >>) }

InitSortKey ==
    /\ IdleDedup
    /\ IdleNorm
    /\ IdlePD
    /\ IdleWeb
    /\ IdleRuns
    /\ IdleLoad
    /\ brand_df = << >>
    /\ pivot_cols \in UNION {[1..n -> SampleLabels] : n \in 0..MaxLabels}
    /\ sorted_pivot_cols = [state |-> "idle", cols |-> << >>, columns |-> << >>]
    /\ brand_pivot = NoPivot

\* Lines 1174-1178
SortPivotCols ==
    /\ sorted_pivot_cols.state = "idle"
    /\ sorted_pivot_cols' = [state |-> "sorted", cols |-> sorted_by_sort_key(pivot_cols),
                             columns |-> pivot_sheet_columns(sorted_by_sort_key(pivot_cols))]
    /\ UNCHANGED << brand_df, pivot_cols, brand_pivot, dedup_vars, norm_vars, pd_vars, web_vars, run_vars, load_vars >>

NextSortKey == SortPivotCols

SpecSortKey == InitSortKey /\ [][NextSortKey]_vars

(***************************************************************************)
(* Specification SpecWeb: one request to "/" or to "/api/process" with     *)
(* sample field texts, handled by index or by api_process.                 *)
(***************************************************************************)
SampleVendorIds ==
    { Vendor1, << " " >> \o Vendor1, << "3", "0", "0", "1", "2" >>, Vendor1 \o << "4" >>,
      << "2", "0", "0", "1", "2", "3" >>, << "3", "0", "0", "1", "2", "x" >>, << >> }

SampleThresholds ==
    { << "0", ".", "3" >>, << "0" >>, << "1" >>, << ".", "5" >>, << "1", ".", "5" >>,
      << "-", "0", ".", "1" >>, << "3", "0" >>, << "n", "a", "n" >>, << "i", "n", "f" >>,
      << "a", "b", "c" >>, << >> }

SampleCredentials == { << "u" >>, << " " >>, << >> }

SampleDates ==
    { << >>,
      << "2", "0", "2", "4", "-", "0", "1", "-", "1", "0" >>,
      << "2", "0", "2", "4", "-", "1", "-", "5" >>,
      << "2", "0", "2", "4", "-", "0", "2", "-", "3", "0" >>,
      << "2", "0", "2", "4", "-", "1", "3", "-", "0", "1" >>,
      << "1", "0", "/", "0", "1", "/", "2", "0", "2", "4" >>,
      << "2", "4", "-", "0", "1", "-", "1", "0" >> }

\* The fields of a request; the as-of date may be left out.
FieldsOf(vendor, threshold, email, password, date) ==
    [name \in {"vendor_id", "gp2_threshold", "email", "password", "date_entry"} |->
        CASE name = "vendor_id" -> vendor [] name = "gp2_threshold" -> threshold
          [] name = "email" -> email [] name = "password" -> password
          [] name = "date_entry" -> date]

WithoutDate(fields) == [name \in DOMAIN fields \ {"date_entry"} |-> fields[name]]

SampleRequests ==
    { [route |-> "/", method |-> "GET", fields |-> << >>],
      [route |-> "/api/process", method |-> "POST", fields |-> << >>] }
      \cup { [route |-> route, method |-> "POST", fields |-> fields] :
                route \in {"/", "/api/process"},
                fields \in { FieldsOf(v, t, e, << "u" >>, d) :
                                v \in SampleVendorIds, t \in SampleThresholds,
                                e \in SampleCredentials, d \in SampleDates }
                    \cup { FieldsOf(Vendor1, << "0", ".", "3" >>, << "u" >>, p, d) :
                              p \in SampleCredentials, d \in SampleDates }
                    \cup { WithoutDate(FieldsOf(v, t, << "u" >>, << "u" >>, << >>)) :
                              v \in SampleVendorIds, t \in SampleThresholds } }

InitWeb ==
    /\ IdleDedup
    /\ IdleNorm
    /\ IdlePivot
    /\ IdleTables
    /\ IdlePD
    /\ IdleRuns
    /\ IdleLoad
    /\ request \in SampleRequests
    /\ web_pc = "received"
    /\ called = << >>
    /\ outcome = NoResult
    /\ response = << >>

Responds(r) ==
    /\ response' = << r >>
    /\ web_pc' = "responded"

\* index (lines 1346-1373)
Index ==
    /\ web_pc = "received"
    /\ request.route = "/"
    /\ IF request.method # "POST"
       THEN /\ Responds([kind |-> "page", message |-> << >>])
            /\ UNCHANGED << called, outcome >>
       ELSE IF validation_message(request.fields) # << >>
       THEN /\ Responds([kind |-> "flash error",
                         message |-> validation_message(request.fields)])
            /\ UNCHANGED << called, outcome >>
       ELSE /\ called' = << process_data_args(request.fields) >>
            /\ \E r \in process_data_outcomes(process_data_args(request.fields)) :
                  /\ outcome' = r
                  /\ Responds(index_response(r))
    /\ UNCHANGED << request, dedup_vars, norm_vars, pivot_vars, pd_vars, run_vars, load_vars >>

\* api_process (lines 1376-1408)
ApiProcess ==
    /\ web_pc = "received"
    /\ request.route = "/api/process"
    /\ IF request.fields = << >>
       THEN /\ Responds([kind |-> "json 400", message |-> << "No JSON data received" >>])
            /\ UNCHANGED << called, outcome >>
       ELSE IF validation_message(request.fields) # << >>
       THEN /\ Responds([kind |-> "json 400",
                         message |-> validation_message(request.fields)])
            /\ UNCHANGED << called, outcome >>
       ELSE /\ called' = << process_data_args(request.fields) >>
            /\ \E r \in process_data_outcomes(process_data_args(request.fields)) :
                  /\ outcome' = r
                  /\ Responds(api_response(r))
    /\ UNCHANGED << request, dedup_vars, norm_vars, pivot_vars, pd_vars, run_vars, load_vars >>

NextWeb == Index \/ ApiProcess

SpecWeb == InitWeb /\ [][NextWeb]_vars

(***************************************************************************)
(* Specification SpecRuns: two invocations of process_data that reach the  *)
(* naming of their report (src/app.py:645-649) while the clock advances.   *)
(* The clock counts ticks, TicksPerSecond of them to the second.           *)
(***************************************************************************)
MaxTicks == 3
TicksPerSecond == 2

Invocations == {1, 2}

\* datetime.now().strftime('%Y%m%d_%H%M%S'): the time to the second
strftime_seconds(ticks) == ticks \div TicksPerSecond

\* f"PW_{vendor_id}_{vendor_name_sanitized}_{stamp}.xlsx"
stamped_filename(vendor, ticks) ==
    [vendor_id |-> filename_of(vendor).vendor_id,
     vendor_name |-> filename_of(vendor).vendor_name,
     stamp |-> strftime_seconds(ticks)]

InitRuns ==
    /\ IdleDedup
    /\ IdleNorm
    /\ IdlePivot
    /\ IdleTables
    /\ IdlePD
    /\ IdleWeb
    /\ IdleLoad
    /\ now = 0
    /\ runs \in [Invocations -> {[vendor_id |-> v, pc |-> "naming", filename |-> << >>] :
                                   v \in {Vendor1, Vendor2}}]
    /\ output_dir = << >>

\* Time passes.
Tick ==
    /\ now < MaxTicks
    /\ now' = now + 1
    /\ UNCHANGED << runs, output_dir >>
    /\ UNCHANGED << dedup_vars, norm_vars, pivot_vars, pd_vars, web_vars, load_vars >>

\* Lines 645-648
NameReport(r) ==
    /\ runs[r].pc = "naming"
    /\ runs' = [runs EXCEPT ![r].pc = "opening",
                            ![r].filename = << stamped_filename(runs[r].vendor_id, now) >>]
    /\ UNCHANGED << now, output_dir >>
    /\ UNCHANGED << dedup_vars, norm_vars, pivot_vars, pd_vars, web_vars, load_vars >>

\* Line 649: pd.ExcelWriter(output_path) creates the file, or replaces the
\* file of that name.
OpenReport(r) ==
    /\ runs[r].pc = "opening"
    /\ runs' = [runs EXCEPT ![r].pc = "writing"]
    /\ output_dir' = Append(output_dir, [name |-> runs[r].filename[1], run |-> r])
    /\ UNCHANGED now
    /\ UNCHANGED << dedup_vars, norm_vars, pivot_vars, pd_vars, web_vars, load_vars >>

\* Line 1337: the workbook is saved and the filename returned.
ReturnReport(r) ==
    /\ runs[r].pc = "writing"
    /\ runs' = [runs EXCEPT ![r].pc = "returned"]
    /\ UNCHANGED << now, output_dir >>
    /\ UNCHANGED << dedup_vars, norm_vars, pivot_vars, pd_vars, web_vars, load_vars >>

NextRuns ==
    \/ Tick
    \/ \E r \in Invocations : NameReport(r)
    \/ \E r \in Invocations : OpenReport(r)
    \/ \E r \in Invocations : ReturnReport(r)

SpecRuns == InitRuns /\ [][NextRuns]_vars

(***************************************************************************)
(* Specification SpecPivotRows: the rows of the pivoted sheet of every     *)
(* brand of at most MaxSheetRows rows over sample price groups,            *)
(* descriptions and pack sizes (src/app.py:1052-1130).                     *)
(***************************************************************************)
MaxSheetRows == 2

SheetRow(pg, pgd, upc, channel, list_case) ==
    [c \in {"Price Group", "Price Group Description", "Units Per Case", "Channel",
            "Pricing Type", "Deal Class", "Purchase Quantity", "List Case", "Discount"} |->
        CASE c = "Price Group" -> pg
          [] c = "Price Group Description" -> pgd
          [] c = "Units Per Case" -> upc
          [] c = "Channel" -> channel
          [] c = "Pricing Type" -> Text(str_Deal_Pricing)
          [] c = "Deal Class" -> Text(str_X)
          [] c = "Purchase Quantity" -> Text(str_12_CSE)
          [] c = "List Case" -> list_case
          [] c = "Discount" -> Num(5)]

SheetRows ==
    { SheetRow(pg, pgd, upc, ch, lc) :
        pg \in {PG1, PG2, Missing},
        pgd \in {Text(str_X), Text(str_Y)},
        upc \in {Num(6), Num(12)},
        ch \in {Text(<< "C", "1" >>), Text(<< "C", "1", "6" >>)},
        lc \in {Num(100), NaN} }

SheetColumns == DOMAIN SheetRow(PG1, Text(str_X), Num(6), Missing, NaN)

InitPivotRows ==
    /\ IdleDedup
    /\ IdleNorm
    /\ IdlePD
    /\ IdleWeb
    /\ IdleRuns
    /\ IdleLoad
    /\ brand_df \in UNION {[1..n -> SheetRows] : n \in 0..MaxSheetRows}
    /\ pivot_cols = << >>
    /\ sorted_pivot_cols = [state |-> "idle", cols |-> << >>, columns |-> << >>]
    /\ brand_pivot = NoPivot

\* Lines 1052-1120
PivotTable ==
    /\ brand_pivot.state = "idle"
    /\ LET rows == pivot_rows(brand_df, SheetColumns)
       IN  brand_pivot' = [state |-> "sorted", sorted |-> rows, rows |-> rows]
    /\ UNCHANGED << brand_df, pivot_cols, sorted_pivot_cols,
                    dedup_vars, norm_vars, pd_vars, web_vars, run_vars, load_vars >>

\* Lines 1122-1130
BlankRepeats ==
    /\ brand_pivot.state = "sorted"
    /\ brand_pivot' = [brand_pivot EXCEPT !.state = "blanked",
                                          !.rows = blank_repeats(brand_pivot.rows)]
    /\ UNCHANGED << brand_df, pivot_cols, sorted_pivot_cols,
                    dedup_vars, norm_vars, pd_vars, web_vars, run_vars, load_vars >>

NextPivotRows == PivotTable \/ BlankRepeats

SpecPivotRows == InitPivotRows /\ [][NextPivotRows]_vars

(***************************************************************************)
(* Specification SpecLoad: process_data from its entry to the loaded       *)
(* catalogs, what follows reduced to its three ways of ending, and the     *)
(* clean-up of the finally clause; the chain-pricing sheet is any sheet of *)
(* at most MaxChainRows rows over sample first cells.                      *)
(***************************************************************************)
MaxChainRows == 4

SampleFirstCells ==
    { Text(<< "V", "e", "n", "d", "o", "r", " ", "I", "D" >>),
      Text(<< "R", "e", "p", "o", "r", "t" >>),
      Text(<< "3", "0", "0", "1", "2", "3" >>),
      Text(<< "3", "0", "0", "0", "0", "1" >>),
      Missing }

LoadDates ==
    { << "2", "0", "2", "4", "-", "0", "1", "-", "1", "0" >>,
      << "1", "0", "/", "0", "1", "/", "2", "0", "2", "4" >> }

InitLoad ==
    /\ IdleDedup
    /\ IdleNorm
    /\ IdlePivot
    /\ IdlePD
    /\ IdleWeb
    /\ IdleRuns
    /\ load_pc = "enter"
    /\ temp_dir = [exists |-> FALSE, files |-> {}]
    /\ chain_sheet \in UNION {[1..n -> SampleFirstCells] : n \in 0..MaxChainRows}
    /\ CHAIN = << >>
    /\ load_log = << >>
    /\ load_result = NoResult

LoadIdle == UNCHANGED << dedup_vars, norm_vars, pivot_vars, pd_vars, web_vars, run_vars >>

\* A return or an exception inside the try block: the finally clause runs
\* before control leaves process_data.
Leaves(r) ==
    /\ load_result' = r
    /\ load_pc' = "finally"

\* Line 167
MakeTempDir ==
    /\ load_pc = "enter"
    /\ temp_dir' = [exists |-> TRUE, files |-> {}]
    /\ load_log' = Append(load_log, "mkdtemp")
    /\ load_pc' = "date"
    /\ UNCHANGED << chain_sheet, CHAIN, load_result >>
    /\ LoadIdle

\* Lines 189-192
ParseDate ==
    /\ load_pc = "date"
    /\ \E text \in LoadDates :
          IF strptime_date(text).state = "ValueError"
          THEN Leaves(ReturnedError("Invalid date format. Use YYYY-MM-DD.", << >>))
          ELSE load_pc' = "connect" /\ UNCHANGED load_result
    /\ UNCHANGED << temp_dir, chain_sheet, CHAIN, load_log >>
    /\ LoadIdle

\* Lines 193-195: get_sharepoint_context returns a context or None
Connect ==
    /\ load_pc = "connect"
    /\ \E ctx \in BOOLEAN :
          IF ctx THEN load_pc' = "download" /\ UNCHANGED load_result
          ELSE Leaves(ReturnedError("Failed to connect to SharePoint. Check email and password.", << >>))
    /\ UNCHANGED << temp_dir, chain_sheet, CHAIN, load_log >>
    /\ LoadIdle

\* Lines 196-219: each download opens its file in the directory and returns
\* the path, or None when the transfer failed.
Download ==
    /\ load_pc = "download"
    /\ \E failed \in SUBSET catalog_files :
          /\ temp_dir' = [temp_dir EXCEPT !.files = catalog_files]
          /\ load_log' = Append(load_log, "download")
          /\ IF failed = {} THEN load_pc' = "load" /\ UNCHANGED load_result
             ELSE Leaves(ReturnedError("Failed to download one or more Excel files from SharePoint.",
                                       << >>))
    /\ UNCHANGED << chain_sheet, CHAIN >>
    /\ LoadIdle

\* Lines 220-262: the three catalogs are read; an empty chain sheet, a sheet
\* without header row and an exception of read_excel return an error.
LoadCatalogs ==
    /\ load_pc = "load"
    /\ catalog_files \subseteq temp_dir.files
    /\ load_log' = Append(load_log, "read")
    /\ \E raises \in BOOLEAN :
          IF raises
          THEN Leaves(ReturnedError("Error loading Excel files: {e}", << >>)) /\ UNCHANGED CHAIN
          ELSE IF chain_sheet = << >>
          THEN Leaves(ReturnedError("Chain_Pricing.xlsx is empty.", << >>)) /\ UNCHANGED CHAIN
          ELSE IF header_row_of(chain_sheet) = -1
          THEN /\ Leaves(ReturnedError("Header row with 'Vendor ID' not found", << >>))
               /\ UNCHANGED CHAIN
          ELSE /\ CHAIN' = chain_rows(chain_sheet)
               /\ load_pc' = "process"
               /\ UNCHANGED load_result
    /\ UNCHANGED << temp_dir, chain_sheet >>
    /\ LoadIdle

\* Lines 263-1337: the rest of the try block returns the filename, returns
\* an error or raises; it reads no file of the directory.
Process ==
    /\ load_pc = "process"
    /\ \E r \in process_data_outcomes([vendor_id |-> Vendor1,
                                       date_entry |-> << "2", "0", "2", "4", "-", "0", "1", "-", "1", "0" >>]) :
          Leaves(r)
    /\ UNCHANGED << temp_dir, chain_sheet, CHAIN, load_log >>
    /\ LoadIdle

\* Lines 1338-1343: shutil.rmtree removes the directory, or raises and the
\* except clause prints the error; then control returns to the caller.
CleanUp ==
    /\ load_pc = "finally"
    /\ \E removed \in BOOLEAN :
          IF removed
          THEN temp_dir' = rmtree /\ load_log' = Append(load_log, "rmtree")
          ELSE UNCHANGED temp_dir /\ load_log' = Append(load_log, "rmtree failed")
    /\ load_pc' = "left"
    /\ UNCHANGED << chain_sheet, CHAIN, load_result >>
    /\ LoadIdle

NextLoad ==
    \/ MakeTempDir
    \/ ParseDate
    \/ Connect
    \/ Download
    \/ LoadCatalogs
    \/ Process
    \/ CleanUp

SpecLoad == InitLoad /\ [][NextLoad]_vars
(***************************************************************************)
(* Properties of improved_deduplication                                    *)
(***************************************************************************)
PresentCols(k, table) == Range(dedup_strategies[k]) \cap table.columns

Agree(r1, r2, cols) == \A c \in cols : r1[c] = r2[c]

HasDuplicates(rows, cols) ==
    \E i, j \in DOMAIN rows : i < j /\ Agree(rows[i], rows[j], cols)

\* Strategy k qualifies: at least 2 of its columns are present and two rows
\* agree on all of the present ones.
Qualifies(k, table) ==
    /\ Cardinality(PresentCols(k, table)) >= 2
    /\ HasDuplicates(table.rows, PresentCols(k, table))

Qualifying(table) == {k \in DOMAIN dedup_strategies : Qualifies(k, table)}

\* The first row of every combination of values in cols, in the original order.
FirstOccurrences(rows, cols) ==
    RowsAt(rows, {j \in DOMAIN rows : \A i \in 1..(j - 1) : ~Agree(rows[i], rows[j], cols)})

\* C1: improved_deduplication applies the first strategy of the priority list
\* that has at least 2 columns present and at least two rows agreeing on the
\* present columns, never a later one; when no strategy qualifies the table is
\* returned with every row kept.
C1_FirstQualifyingStrategy ==
    Len(deduped) >= 1 =>
        LET Q == Qualifying(df)
        IN  /\ deduped[1].columns = df.columns
            /\ IF Q = {} THEN deduped[1].rows = df.rows
               ELSE deduped[1].rows = FirstOccurrences(df.rows, PresentCols(Min(Q), df))

\* A table on which strategy 3 is the first of several qualifying strategies
\* and a broader qualifying strategy would have removed more rows.
C1_Witness ==
    /\ Len(deduped) >= 1
    /\ Qualifying(df) # {}
    /\ Min(Qualifying(df)) = 3
    /\ \E k \in Qualifying(df) :
          Len(FirstOccurrences(df.rows, PresentCols(k, df))) < Len(deduped[1].rows)
    /\ Len(deduped[1].rows) < Len(df.rows)

\* C2 as stated: applying improved_deduplication twice yields the same number
\* of rows as applying it once.
C2_Idempotent ==
    Len(deduped) = 2 => Len(deduped[2].rows) = Len(deduped[1].rows)

\* C2 amended: a second application never adds rows and never re-applies the
\* strategy the first application applied nor a more specific one; it yields
\* the same number of rows as the first whenever no strategy qualifies on the
\* once-deduplicated table, and otherwise applies a strictly less specific
\* strategy and removes further rows.
C2_SecondPassOnlyBroader ==
    Len(deduped) = 2 =>
        LET Q1 == Qualifying(df)
            Q2 == Qualifying(deduped[1])
        IN  /\ Len(deduped[2].rows) <= Len(deduped[1].rows)
            /\ Q1 # {} => \A k \in Q2 : k > Min(Q1)
            /\ Q1 = {} => Q2 = {}
            /\ Q2 = {} <=> Len(deduped[2].rows) = Len(deduped[1].rows)

\* The second application removed a row: the first applied strategy 1 and
\* left two rows that agree on the columns of a broader strategy.
C2_Witness ==
    /\ Len(deduped) = 2
    /\ Qualifying(df) # {}
    /\ Min(Qualifying(df)) = 1
    /\ Len(deduped[2].rows) < Len(deduped[1].rows)


\* The index of the first row of rows that agrees with row on cols.
FirstIndex(rows, row, cols) == Min({i \in DOMAIN rows : Agree(rows[i], row, cols)})

\* out is rows with some rows left out: the rows of out are rows of the
\* input, unmodified and in their order.
IsSubsequence(out, rows) ==
    \E f \in [DOMAIN out -> DOMAIN rows] :
        /\ \A i, j \in DOMAIN out : i < j => f[i] < f[j]
        /\ \A i \in DOMAIN out : out[i] = rows[f[i]]

\* C21: when improved_deduplication applies a strategy, its output is a
\* subsequence of the input in the original order, and of every combination
\* of values of the strategy's present columns exactly one row is kept: the
\* first input row of that combination, unmodified.
C21_KeepFirstSubsequence ==
    (Len(deduped) >= 1 /\ Qualifying(df) # {}) =>
        LET cols == PresentCols(Min(Qualifying(df)), df)
            out == deduped[1].rows
        IN  /\ deduped[1].columns = df.columns
            /\ IsSubsequence(out, df.rows)
            /\ \A j \in DOMAIN df.rows :
                  /\ Cardinality({i \in DOMAIN out : Agree(out[i], df.rows[j], cols)}) = 1
                  /\ \E i \in DOMAIN out :
                        out[i] = df.rows[FirstIndex(df.rows, df.rows[j], cols)]

\* A strategy removed a row that differs from the kept row of its
\* combination in a column the strategy does not compare, and kept two rows.
C21_Witness ==
    /\ Len(deduped) >= 1
    /\ Qualifying(df) # {}
    /\ Len(deduped[1].rows) = 2
    /\ Len(df.rows) = 3
    /\ \E i, j \in DOMAIN df.rows :
          /\ i < j
          /\ Agree(df.rows[i], df.rows[j], PresentCols(Min(Qualifying(df)), df))
          /\ df.rows[i] # df.rows[j]
\* An unsigned decimal numeral: digits with at most one dot.
UnsignedNumeral(s) ==
    /\ \A i \in DOMAIN s : s[i] \in Digits \cup {"."}
    /\ \E i \in DOMAIN s : s[i] \in Digits
    /\ CountOf(s, ".") <= 1

\* A numeral with a minus sign in front.
NegativeNumeral(s) ==
    s # << >> /\ s[1] = "-" /\ UnsignedNumeral(SubSeq(s, 2, Len(s)))

SixZeros == << "0", "0", "0", "0", "0", "0" >>

\* C5: the supplier-code normalization never raises; a numeric input yields
\* the zero-padded decimal of its integer value ("300001.0" yields "300001"),
\* and a missing or non-numeric input yields "000000".
C5_NormalizationIsTotal ==
    supplier_code.state # "idle" =>
        /\ supplier_code.state = "ok"
        /\ (~supplier_cell.na /\ UnsignedNumeral(supplier_cell.s)) =>
               supplier_code.s = zfill(str_int(DecimalValue(IntegerDigits(supplier_cell.s))),
                                       ZFillWidth)
        /\ (supplier_cell.na \/ (~UnsignedNumeral(supplier_cell.s)
                                  /\ ~NegativeNumeral(supplier_cell.s))) =>
               supplier_code.s = SixZeros


\* C18: a normalized supplier code is a string of exactly 6 decimal digits,
\* whatever the input (longer numbers, fractions, negative numbers, text).
C18_SixDigitCode ==
    supplier_code.state = "ok" =>
        /\ Len(supplier_code.s) = 6
        /\ \A i \in DOMAIN supplier_code.s : supplier_code.s[i] \in Digits
RowOrders(rows) ==
    { [i \in DOMAIN rows |-> rows[p[i]]] :
        p \in {q \in [DOMAIN rows -> DOMAIN rows] : \A i, j \in DOMAIN rows : q[i] = q[j] => i = j} }

\* C9: the sequence of pivot columns of a brand's sheet is the same for every
\* order of the brand's rows, also when distinct pivot keys have equal sort keys.
C9_ColumnOrderIndependentOfRowOrder ==
    sorted_pivot_cols.state = "sorted" =>
        \A rows \in RowOrders(brand_df) : brand_pivot_columns(rows) = sorted_pivot_cols.cols

\* Two rows whose pivot keys differ but sort equal ("12 CSE" and "12 EA", or
\* two unknown deal classes), the string-greater key in the earlier row.
C9_Witness ==
    /\ sorted_pivot_cols.state = "sorted"
    /\ \E i, j \in DOMAIN brand_df :
          /\ i < j
          /\ pivot_key(brand_df[i]) # pivot_key(brand_df[j])
          /\ pivot_key_sort_key(pivot_key(brand_df[i])) = pivot_key_sort_key(pivot_key(brand_df[j]))
          /\ str_less(pivot_key(brand_df[j]), pivot_key(brand_df[i]))
    /\ \E i, j \in DOMAIN brand_df :
          /\ i < j
          /\ brand_df[i]["Deal Class"] = Text(str_Y) /\ brand_df[j]["Deal Class"] = Text(str_X)
          /\ brand_df[i]["Channel"] = brand_df[j]["Channel"]
          /\ brand_df[i]["Purchase Quantity"] = brand_df[j]["Purchase Quantity"]


\* The ranks of a pivot column label: of its channel, of its pricing type,
\* of its deal class, and the leading integer of its purchase quantity.
ChannelRank(channel) ==
    CASE channel = str_Retail -> 0 [] channel = str_OP -> 1 [] OTHER -> 99

PricingTypeRank(pricing_type) ==
    CASE pricing_type = str_Level_Pricing -> 0
      [] pricing_type = str_Deal_Pricing -> 1
      [] OTHER -> 99

DealClassRank(deal_class) ==
    IF \E k \in DOMAIN deal_class_order : deal_class_order[k] = deal_class
    THEN (CHOOSE k \in DOMAIN deal_class_order : deal_class_order[k] = deal_class) - 1
    ELSE 99

QuantityRank(quantity) ==
    IF LeadingDigits(quantity) = << >> THEN 9999
    ELSE DecimalValue(LeadingDigits(quantity))

RankTuple(label) ==
    LET parts == split(label, pivot_key_separator)
        part == [i \in 1..4 |-> IF Len(parts) >= i THEN parts[i] ELSE << >>]
    IN  << ChannelRank(part[1]), PricingTypeRank(part[2]),
           DealClassRank(part[3]), QuantityRank(part[4]) >>

RECURSIVE NonDecreasing(_)
NonDecreasing(ranks) ==
    \/ Len(ranks) < 2
    \/ /\ ~tuple_less(ranks[2], ranks[1])
       /\ NonDecreasing(Tail(ranks))

\* No tuple of channel rank 1 (OP) before one of channel rank 0 (Retail).
RECURSIVE RetailBeforeOP(_)
RetailBeforeOP(ranks) ==
    \/ ranks = << >>
    \/ /\ ranks[1][1] = 1 => \A k \in DOMAIN ranks : ranks[k][1] # 0
       /\ RetailBeforeOP(Tail(ranks))

\* C23: the columns of a pivoted brand sheet are the four identity columns
\* followed by the pivot columns, each pivot column's rank tuple not greater
\* than that of the next; every Retail column precedes every OP column.
C23_IdentityThenRankedColumns ==
    sorted_pivot_cols.state = "sorted" =>
        LET columns == sorted_pivot_cols.columns
            pivots == SubSeq(columns, Len(identity_cols) + 1, Len(columns))
            ranks == [i \in DOMAIN pivots |-> RankTuple(pivots[i])]
        IN  /\ Len(columns) = Len(identity_cols) + Len(pivot_cols)
            /\ SubSeq(columns, 1, Len(identity_cols)) =
                  << "Price Group", "Price Group Description", "Units Per Case",
                     "Product Cost Breakdown" >>
            /\ Range(pivots) = Range(pivot_cols)
            /\ NonDecreasing(ranks)
            /\ RetailBeforeOP(ranks)

\* A sheet with a Retail and an OP column, which pivot_table lists with the
\* OP column first.
C23_Witness ==
    /\ sorted_pivot_cols.state = "sorted"
    /\ Len(pivot_cols) = 2
    /\ RankTuple(pivot_cols[1])[1] = 1
    /\ RankTuple(pivot_cols[2])[1] = 0
    /\ sorted_pivot_cols.columns[Len(identity_cols) + 1] = pivot_cols[2]
(***************************************************************************)
(* Properties of process_data                                              *)
(***************************************************************************)
RaisedAt(what) == result.kind = "raised" /\ result.value[2] = what

\* The stages after the below-threshold sheet was written.
AfterBelowThreshold == pc \in {"deals", "chain", "brands", "brand", "return"}

\* The brands of the brand loop.
Brands ==
    IF "Brand" \in PW_deduped.columns THEN Range(brand_names(PW_deduped)) ELSE {}

\* A GP2 value of a row is null: the cell is missing, or the table was given
\* no GP2 column at all.
NullGP2(t, row) ==
    \A c \in {"GP2 - Negotiated Cost", "GP2 - Avg Cost"} : c \in t.columns => row[c].na

ZeroPricesHaveNullGP2(t) ==
    \A i \in DOMAIN t.rows : t.rows[i]["Case Price"] = Num(0) => NullGP2(t, t.rows[i])

\* C3: in every table passed through the GP2 calculation a row of price 0 has
\* null GP2 values, and the calculation makes process_data raise nothing,
\* also when every row of the table has price 0.
C3_ZeroPriceGivesNullGP2 ==
    /\ ~RaisedAt("GP2 - Negotiated Cost")
    /\ pc \in {"below", "deals", "chain", "brands", "brand", "return"} =>
          /\ ZeroPricesHaveNullGP2(with_gp2(PW_deduped))
          /\ \A b \in Brands :
                ZeroPricesHaveNullGP2(brand_table(PW_deduped, b))

\* The cost the allocation owes to the rows of price group g: the
\* inventory-weighted mean of the costs of the group's rows.
GroupRows(t, g) == SelectSeq(t.rows, LAMBDA row : row["Price Group"] = g)

TotalCases(rows) == sum([i \in DOMAIN rows |-> fillna_0(rows[i]["Cases OH"])])

TotalCost(rows) ==
    sum([i \in DOMAIN rows |->
            Times(fillna_0(rows[i]["Avg Cost"]), fillna_0(rows[i]["Cases OH"]))])

\* C4: after the weighted-average allocation every row of a price group with
\* non-zero total cases on hand carries sum(cost * cases) / sum(cases) of the
\* group as its cost.
C4_WeightedAverageAllocated ==
    pc = "dedup" =>
        LET before == pricing_rows(PB_input).table
        IN  \A i \in DOMAIN PW.rows :
               LET group == GroupRows(before, PW.rows[i]["Price Group"])
               IN  TotalCases(group) # Num(0) =>
                      PW.rows[i]["Avg Cost"] = Over(TotalCost(group), TotalCases(group))

\* The merged rows whose normalized supplier code is the vendor id, when
\* every supplier cell can be normalized.
Normalizable(t) ==
    \A i \in DOMAIN t.rows : normalize_supplier(t.rows[i]["Supplier"]).state = "ok"

MatchingRows(t, vendor) ==
    SelectSeq(t.rows, LAMBDA row : normalize_supplier(row["Supplier"]).s = vendor)

\* The vendor filter was reached (the merged table has the "Supplier"
\* column) and applied.
VendorFilterDone ==
    /\ pc \notin {"idle", "merge", "vendor"}
    /\ "Supplier" \in existing_cols_to_merge(ZPUR)
    /\ Normalizable(merge(PB, ZPUR))

\* C6: the rows used after the vendor filter are exactly the merged rows whose
\* normalized supplier code is the vendor id; when there is none,
\* process_data returns an error that names the vendor id and no output file
\* exists.
C6_VendorFilter ==
    VendorFilterDone =>
        LET matching == MatchingRows(merge(PB, ZPUR), vendor_id)
        IN  IF matching = << >>
            THEN /\ pc = "done"
                 /\ result.kind = "error"
                 /\ result.value[2] = vendor_id
                 /\ ~output_file
                 /\ sheets = << >>
            ELSE /\ Len(PB_input.rows) = Len(matching)
                 /\ \A i \in DOMAIN matching :
                       /\ PB_input.rows[i]["Supplier"] = Text(vendor_id)
                       /\ \A c \in PB_input.columns \ {"Supplier"} :
                             PB_input.rows[i][c] = matching[i][c]

\* A catalog with rows, none of them of the vendor: the error is returned.
C6_Witness ==
    /\ VendorFilterDone
    /\ merge(PB, ZPUR).rows # << >>
    /\ MatchingRows(merge(PB, ZPUR), vendor_id) = << >>
    /\ result.kind = "error"

\* The value of a column in a row, 0 for a missing value and for a column
\* the row does not have.
ValueOr0(row, col) == IF col \in DOMAIN row THEN fillna_0(row[col]) ELSE Num(0)

\* The margin of a row on one of its costs, as the report defines it:
\* (price - (cost - chargeback)) / price, null for a price of 0.
Margin(row, cost_col) ==
    IF ValueOr0(row, "Case Price") = Num(0) THEN NaN
    ELSE Over(Minus(ValueOr0(row, "Case Price"),
                    Minus(ValueOr0(row, cost_col), ValueOr0(row, "Chargeback"))),
              ValueOr0(row, "Case Price"))

SomeMarginBelow(row, threshold) ==
    \E c \in {"Negotiated Cost", "Avg Cost"} :
        ~Margin(row, c).na /\ Less(Margin(row, c), threshold)

\* The row of the below-threshold table that a deduplicated row becomes.
SameRow(sheet_row, row) ==
    \A c \in DOMAIN row :
        sheet_row[c] = IF c \in TextColumns \/ ("n" \in DOMAIN row[c] /\ ~row[c].na)
                       THEN row[c] ELSE sheet_row[c]

OnBelowThresholdSheet(row) ==
    \E j \in DOMAIN gp2_below_threshold.rows : SameRow(gp2_below_threshold.rows[j], row)

BelowThresholdSheet ==
    SelectSeq(sheets, LAMBDA sheet : sheet.name = str_GP2_Below_Threshold)

\* C7: a deduplicated row is on the "GP2 Below Threshold" sheet if and only if
\* one of its two GP2 values is non-null and strictly less than the threshold.
C7_BelowThresholdIff ==
    AfterBelowThreshold =>
        /\ \A i \in DOMAIN PW_deduped.rows :
              OnBelowThresholdSheet(PW_deduped.rows[i])
                <=> SomeMarginBelow(PW_deduped.rows[i], gp2_threshold)
        /\ Len(gp2_below_threshold.rows) =
              Len(SelectSeq(PW_deduped.rows,
                            LAMBDA row : SomeMarginBelow(row, gp2_threshold)))
        /\ Len(BelowThresholdSheet) = 1
        /\ BelowThresholdSheet[1].rows = select(gp2_below_threshold, display_cols).rows

\* For the threshold 0.30, a row of margin 0.25 on its negotiated cost and
\* 0.45 on its average cost is on the sheet and a row of price 0, whose
\* margins are null, is not.
C7_Witness ==
    /\ AfterBelowThreshold
    /\ gp2_threshold = Threshold30
    /\ \E i \in DOMAIN PW_deduped.rows :
          /\ Margin(PW_deduped.rows[i], "Negotiated Cost") = Ratio(25, 100)
          /\ Margin(PW_deduped.rows[i], "Avg Cost") = Ratio(45, 100)
          /\ OnBelowThresholdSheet(PW_deduped.rows[i])
    /\ \E i \in DOMAIN PW_deduped.rows :
          /\ Margin(PW_deduped.rows[i], "Negotiated Cost").na
          /\ ~OnBelowThresholdSheet(PW_deduped.rows[i])

\* The price book has a brand to write and every brand name is a valid sheet
\* title.
HasBrands ==
    /\ "Brand" \in PB.columns
    /\ \E i \in DOMAIN PB.rows : ~PB.rows[i]["Brand"].na
    /\ \A i \in DOMAIN PB.rows :
          PB.rows[i]["Brand"].na \/ ~to_excel_raises(safe_brand_name(PB.rows[i]["Brand"].s))

\* The pivot dimensions as the price book names them: "Trade Channel ID" is
\* renamed to "Channel".
PivotInputColumns == {"Trade Channel ID", "Pricing Type", "Deal Class", "Purchase Quantity"}

SheetsNamed(name) == SelectSeq(sheets, LAMBDA sheet : sheet.name = name)

\* C8: when fewer than 4 of the pivot-dimension columns are present,
\* process_data does not raise and writes a flat sheet for every brand.
C8_FewerPivotColumnsGiveFlatSheets ==
    (/\ pc = "done"
     /\ HasBrands
     /\ Cardinality(PivotInputColumns \cap PB.columns) < 4) =>
        /\ result.kind = "file"
        /\ \A b \in Brands :
              /\ SheetsNamed(safe_brand_name(b)) # << >>
              /\ SheetsNamed(safe_brand_name(b))[1].kind = << "flat" >>

\* C10: once the brand loop is entered, process_data returns a filename and
\* every brand has a sheet, whatever fails while a brand is written.
C10_BrandFailuresIsolated ==
    (/\ pc = "done"
     /\ SheetsNamed(str_Chain_Pricing) # << >>
     /\ Brands # {}) =>
        /\ result.kind = "file"
        /\ \A b \in Brands : SheetsNamed(safe_brand_name(b)) # << >>


\* C11: process_data never raises to its caller: every run ends by returning
\* a filename or an error message.
C11_NeverRaises ==
    pc = "done" => result.kind \in {"file", "error"}

\* C12: a run of process_data that does not return a filename leaves no
\* output workbook behind.
C12_FailureIsAtomic ==
    (pc = "done" /\ result.kind # "file") => ~output_file

\* The tables that carry GP2 values of the vendor's rows: the table of the
\* below-threshold sheet before its filter, and the table of every brand.
GP2Tables ==
    {with_gp2(PW_deduped)} \cup {brand_table(PW_deduped, b) : b \in Brands}

\* C17: in every row of price other than 0, each GP2 value is
\* (price - (cost - chargeback)) / price on the cost of its variant, the two
\* variants sharing price and chargeback; a missing cost or chargeback counts
\* as 0.
C17_GP2Formula ==
    AfterBelowThreshold =>
        /\ \A t \in GP2Tables : \A i \in DOMAIN t.rows :
              t.rows[i]["Case Price"] # Num(0) =>
                 /\ t.rows[i]["GP2 - Negotiated Cost"] = Margin(t.rows[i], "Negotiated Cost")
                 /\ t.rows[i]["GP2 - Avg Cost"] = Margin(t.rows[i], "Avg Cost")
        /\ \A i \in DOMAIN PW_deduped.rows :
              fillna_0(PW_deduped.rows[i]["Case Price"]) # Num(0) =>
                 /\ with_gp2(PW_deduped).rows[i]["GP2 - Negotiated Cost"]
                       = Margin(PW_deduped.rows[i], "Negotiated Cost")
                 /\ with_gp2(PW_deduped).rows[i]["GP2 - Avg Cost"]
                       = Margin(PW_deduped.rows[i], "Avg Cost")

\* Price 100, cost 80 and chargeback 5 give 0.25; a row without a chargeback
\* and a row without a negotiated cost are computed with 0 in its place.
C17_Witness ==
    /\ AfterBelowThreshold
    /\ \E i \in DOMAIN PW_deduped.rows :
          /\ PW_deduped.rows[i]["Case Price"] = Num(100)
          /\ PW_deduped.rows[i]["Negotiated Cost"] = Num(80)
          /\ PW_deduped.rows[i]["Chargeback"] = Num(5)
          /\ with_gp2(PW_deduped).rows[i]["GP2 - Negotiated Cost"] = Ratio(25, 100)

\* A price book that process_data turns into a report when the cost catalog
\* has every column: it has every column itself, and each of its rows has a
\* price other than 0, a brand that can name a sheet and a product that the
\* cost catalog lists (for the vendor, when the catalog names suppliers).
ReportablePriceBook ==
    /\ PB.rows # << >>
    /\ PB.columns = PBColumns
    /\ \A i \in DOMAIN PB.rows :
          /\ ValueOr0(PB.rows[i], "Case Price") # Num(0)
          /\ ~PB.rows[i]["Brand"].na
          /\ ~to_excel_raises(safe_brand_name(PB.rows[i]["Brand"].s))
          /\ \E j \in DOMAIN ZPUR.rows :
                /\ ZPUR.rows[j]["Material"] = PB.rows[i]["SAP Product ID"]
                /\ "Supplier" \in ZPUR.columns => ZPUR.rows[j]["Supplier"] = Text(vendor_id)

\* C15: when the cost catalog has a column of the merge allow-list, the
\* allow-list columns it lacks are skipped: process_data neither returns an
\* error nor raises because of them.
C15_AbsentCatalogColumnsSkipped ==
    (/\ pc = "done"
     /\ "Material" \in ZPUR.columns
     /\ existing_cols_to_merge(ZPUR) # {}
     /\ ReportablePriceBook) =>
        result.kind = "file"

\* The cost-reference table of the run, and the price groups in it that
\* have two rows of different cost.
CostReference == cogs_of(PB_input)

InconsistentPriceGroups ==
    IF {"Price Group", "Negotiated Cost"} \subseteq CostReference.columns
    THEN { r1["Price Group"] : r1 \in
             { r \in Range(CostReference.rows) :
                 /\ ~r["Price Group"].na
                 /\ ~r["Negotiated Cost"].na
                 /\ \E q \in Range(CostReference.rows) :
                       /\ q["Price Group"] = r["Price Group"]
                       /\ ~q["Negotiated Cost"].na
                       /\ q["Negotiated Cost"] # r["Negotiated Cost"] } }
    ELSE {}

InconsistentRows ==
    SelectSeq(CostReference.rows, LAMBDA r : r["Price Group"] \in InconsistentPriceGroups)

C22_ZeroCasesFallBackToFirstCost ==
    pc = "dedup" =>
        LET before == pricing_rows(PB_input).table
        IN  \A i \in DOMAIN PW.rows :
               LET group == GroupRows(before, PW.rows[i]["Price Group"])
               IN  (/\ {"Cases OH", "Avg Cost"} \subseteq before.columns
                    /\ group # << >>
                    /\ TotalCases(group) = Num(0)) =>
                      PW.rows[i]["Avg Cost"] = fillna_0(group[1]["Avg Cost"])

\* The units per case of a row as a number: 0 for a missing value and for a
\* text that is no number.
UnitsOf(row) ==
    LET cell == row["Units Per Case"]
    IN  IF "n" \in DOMAIN cell THEN (IF cell.na THEN Num(0) ELSE cell)
        ELSE IF ~cell.na /\ cell.s # << >> /\ \A k \in DOMAIN cell.s : cell.s[k] \in Digits
             THEN Num(DecimalValue(cell.s)) ELSE Num(0)

RowsOfBrand(brand) ==
    SelectSeq(PW_deduped.rows, LAMBDA row : row["Brand"] = Text(brand))

\* The names of the sheets that every workbook has.
FixedSheetNames ==
    { str_COGS, str_Price_Group_Errors, str_GP2_Below_Threshold, str_Pricing_by_Deal_ID,
      str_Chain_Pricing }

\* The sheets of the brands of the deduplicated rows, as pairs of the sheet's
\* position and the brand; no other brand and no fixed sheet shares the name
\* of such a sheet.
OwnBrandSheets ==
    {p \in (DOMAIN sheets) \X Brands :
        /\ sheets[p[1]].name = safe_brand_name(p[2])
        /\ sheets[p[1]].name \notin FixedSheetNames
        /\ \A other \in Brands : safe_brand_name(other) = sheets[p[1]].name => other = p[2]}

Quotient(price, units) == IF units # Num(0) THEN Over(price, units) ELSE NaN

\* C25: a brand's sheet has one row for each of the brand's rows, with List
\* Bottle = List Case / Units Per Case and Bottle Price = Case Price / Units
\* Per Case, and both null when the units per case are 0, missing or no
\* number.
C25_BottlePrices ==
    \A p \in OwnBrandSheets :
        LET sheet == sheets[p[1]]
            source == RowsOfBrand(p[2])
        IN  /\ Len(sheet.rows) = Len(source)
            /\ {"List Case", "Case Price", "Units Per Case"} \subseteq PW_deduped.columns =>
                  \A k \in DOMAIN sheet.rows :
                      /\ sheet.rows[k]["List Bottle"] =
                            Quotient(sheet.rows[k]["List Case"], UnitsOf(source[k]))
                      /\ sheet.rows[k]["Bottle Price"] =
                            Quotient(sheet.rows[k]["Case Price"], UnitsOf(source[k]))

\* A brand's sheet with a row of 12 units per case and a row whose units per
\* case are a word: the bottle prices of the second are null.
C25_Witness ==
    \E p \in OwnBrandSheets :
        /\ Len(sheets[p[1]].rows) = 2
        /\ \E j, k \in 1..2 :
              /\ RowsOfBrand(p[2])[j]["Units Per Case"] = Num(12)
              /\ ~sheets[p[1]].rows[j]["List Bottle"].na
              /\ RowsOfBrand(p[2])[k]["Units Per Case"] = Text(str_X)
              /\ sheets[p[1]].rows[k]["List Bottle"].na
              /\ sheets[p[1]].rows[k]["Bottle Price"].na

\* The deduplicated rows that lines 511-644 make of the vendor's rows.
DedupedFrom(vendor_rows) ==
    improved_deduplication(
        where(weighted_average(pricing_rows(vendor_rows).table, FALSE).table, not_combo))

Without(t, i) ==
    [t EXCEPT !.rows = SubSeq(t.rows, 1, i - 1) \o SubSeq(t.rows, i + 1, Len(t.rows))]

\* The positions of the rows that repeat an earlier row.
ExtraCopies(t) == {i \in DOMAIN t.rows : \E j \in 1..(i - 1) : t.rows[j] = t.rows[i]}

\* The costs reported for the price groups.
ReportedCosts(t) == {<< row["Price Group"], row["Avg Cost"] >> : row \in Range(t.rows)}

\* C28: an extra copy of a row among the vendor's rows, which the
\* deduplication removes, does not change the Avg Cost reported for any price
\* group: the deduplicated rows report the costs they report without it.
C28_CopiesDoNotChangeCost ==
    pc = "writer" =>
        /\ PW_deduped = DedupedFrom(PB_input)
        /\ \A i \in ExtraCopies(PB_input) :
              /\ Len(PW_deduped.rows) < Len(PB_input.rows)
              /\ ReportedCosts(DedupedFrom(Without(PB_input, i))) = ReportedCosts(PW_deduped)

\* C29: when the loop over the brands has ended, every brand of the
\* deduplicated rows has a sheet of its own: the workbook holds as many
\* sheets beside the fixed ones as there are brands, one under each brand's
\* name, and no brand's sheet name is the name of a fixed sheet.
C29_OneSheetPerBrand ==
    (pc = "return" /\ Brands # {}) =>
        /\ \A brand \in Brands :
              /\ safe_brand_name(brand) \notin FixedSheetNames
              /\ \E i \in DOMAIN sheets : sheets[i].name = safe_brand_name(brand)
        /\ \A b1, b2 \in Brands : b1 # b2 => safe_brand_name(b1) # safe_brand_name(b2)
        /\ Cardinality({i \in DOMAIN sheets : sheets[i].name \notin FixedSheetNames}) =
              Cardinality(Brands)

\* The validity window of a row contains the date; a null bound is open.
WindowContains(row, date) ==
    /\ row["Start Date"].na \/ ~Less(date, row["Start Date"])
    /\ row["End Date"].na \/ ~Less(row["End Date"], date)

\* C30: every row of the "Pricing by Deal ID" sheet has a validity window
\* that contains the as-of date: none ended before it, none starts after it.
C30_DealSheetRowsValidAsOf ==
    \A i \in DOMAIN sheets :
        (/\ sheets[i].name = str_Pricing_by_Deal_ID
         /\ {"Start Date", "End Date"} \subseteq sheets[i].columns) =>
            \A k \in DOMAIN sheets[i].rows : WindowContains(sheets[i].rows[k], date_entry)

(***************************************************************************)
(* Properties of pivot_key_sort_key                                        *)
(***************************************************************************)
Components(label) == split(label, pivot_key_separator)

\* A label of exactly four components; it is recognised when the sort
\* function knows each of them: the channel, the pricing type and the deal
\* class are of its lists and the quantity starts with a number.
WellFormed(label) == Len(Components(label)) = Len(pivot_key_cols)

Recognised(label) ==
    /\ WellFormed(label)
    /\ Components(label)[1] \in {str_Retail, str_OP}
    /\ Components(label)[2] \in {str_Level_Pricing, str_Deal_Pricing}
    /\ Components(label)[3] \in Range(deal_class_order)
    /\ LeadingDigits(Components(label)[4]) # << >>

\* C19: sorting the labels by pivot_key_sort_key returns for every list of
\* labels, and puts a label that does not split into exactly 4 components
\* after every well-formed label whose four components are recognised.
C19_MalformedKeysSortLast ==
    sorted_pivot_cols.state = "sorted" =>
        /\ Len(sorted_pivot_cols.cols) = Len(pivot_cols)
        /\ \A i, j \in DOMAIN sorted_pivot_cols.cols :
              (/\ ~WellFormed(sorted_pivot_cols.cols[i])
               /\ Recognised(sorted_pivot_cols.cols[j])) => j < i

(***************************************************************************)
(* Properties of the request handlers                                      *)
(***************************************************************************)
\* The request carries fields: a POST of the form, or a POST of JSON data.
Submitted == request.method = "POST" /\ request.fields # << >>

\* A vendor id of exactly 6 digits, the first of them 3.
SixDigitsFrom3(vendor) ==
    /\ Len(vendor) = 6
    /\ \A i \in DOMAIN vendor : vendor[i] \in Digits
    /\ vendor[1] = "3"

\* A threshold text that is a number between 0 and 1.
UnitIntervalNumber(text) ==
    /\ float_str(text).state = "ok"
    /\ float_str(text).kind = "finite"
    /\ ~Less(float_str(text).value, Num(0))
    /\ ~Less(Num(1), float_str(text).value)

ValidationPasses ==
    /\ Submitted
    /\ field(request.fields, "email") # << >>
    /\ field(request.fields, "password") # << >>
    /\ SixDigitsFrom3(field(request.fields, "vendor_id"))
    /\ UnitIntervalNumber(field(request.fields, "gp2_threshold"))

\* C13: in index and in api_process, process_data is called only with a
\* vendor id of exactly 6 digits beginning with 3 and a threshold that is a
\* number of [0, 1]; when the validation fails the handler answers with a
\* message and does not call process_data.
C13_CallOnlyAfterValidation ==
    web_pc = "responded" =>
        /\ called # << >> =>
              /\ ValidationPasses
              /\ SixDigitsFrom3(called[1].vendor_id)
              /\ ~called[1].gp2_threshold.na
              /\ ~Less(called[1].gp2_threshold, Num(0))
              /\ ~Less(Num(1), called[1].gp2_threshold)
        /\ (Submitted /\ ~ValidationPasses) =>
              /\ called = << >>
              /\ response[1].kind \in {"flash error", "json 400"}
              /\ response[1].message # << >>

\* Both cases of either handler: a request that passes is handed to
\* process_data, which returns its file.
C13_Witness ==
    /\ web_pc = "responded"
    /\ request.route = "/api/process"
    /\ called # << >>
    /\ outcome.kind = "file"
    /\ response[1].kind = "json 200"

\* C16: a request with a valid vendor id, threshold and credentials and an
\* empty or absent as-of date is processed: process_data is called and what
\* it returns is not an error about the date.
C16_DateIsOptional ==
    (/\ web_pc = "responded"
     /\ ValidationPasses
     /\ field(request.fields, "date_entry") = << >>) =>
        /\ called # << >>
        /\ ~(outcome.kind = "error"
             /\ outcome.value[1] = "Invalid date format. Use YYYY-MM-DD.")

(***************************************************************************)
(* Properties of the report names                                          *)
(***************************************************************************)
Returned(r) == runs[r].pc = "returned"

\* C14: two invocations of process_data that each produce a report, two
\* concurrent invocations for one vendor included, write files of different
\* names: no file of the output directory is opened by both.
C14_DistinctFilenames ==
    \A r1, r2 \in DOMAIN runs :
        (r1 # r2 /\ Returned(r1) /\ Returned(r2)) =>
            /\ runs[r1].filename # runs[r2].filename
            /\ \A i, j \in DOMAIN output_dir :
                  output_dir[i].run # output_dir[j].run =>
                     output_dir[i].name # output_dir[j].name

(***************************************************************************)
(* Properties of the rows of the pivoted sheet                             *)
(***************************************************************************)
GroupTuple(row) ==
    << row["Price Group"], row["Price Group Description"], row["Units Per Case"] >>

Shown(i) == i = 1 \/ GroupTuple(brand_pivot.sorted[i]) # GroupTuple(brand_pivot.sorted[i - 1])

Blank == [na |-> FALSE, s |-> << >>]

\* C24: after the blanking a row of the sorted pivot shows its price group,
\* description and units per case exactly when its tuple of the three
\* differs from the previous row's (the first row shows them); in every
\* other row the three cells are blank; no other cell is changed.
C24_RepeatedGroupCellsBlank ==
    brand_pivot.state = "blanked" =>
        /\ Len(brand_pivot.rows) = Len(brand_pivot.sorted)
        /\ \A i \in DOMAIN brand_pivot.rows :
              LET before == brand_pivot.sorted[i]
                  after == brand_pivot.rows[i]
              IN  /\ DOMAIN after = DOMAIN before
                  /\ Shown(i) => after = before
                  /\ ~Shown(i) =>
                        /\ after["Price Group"] = Blank
                        /\ after["Price Group Description"] = Blank
                        /\ after["Units Per Case"] = Blank
                        /\ after["Product Cost Breakdown"] = before["Product Cost Breakdown"]
                        /\ after["values"] = before["values"]

\* A sheet with a block of two rows (the second blanked) and a later row that
\* repeats the price group of the row before it with another description or
\* pack size (shown).
C24_Witness ==
    /\ brand_pivot.state = "blanked"
    /\ \E i \in DOMAIN brand_pivot.rows :
          /\ ~Shown(i)
          /\ brand_pivot.rows[i]["Price Group"] # brand_pivot.sorted[i]["Price Group"]
    /\ \E i \in DOMAIN brand_pivot.rows :
          /\ i > 1
          /\ Shown(i)
          /\ brand_pivot.sorted[i]["Price Group"] = brand_pivot.sorted[i - 1]["Price Group"]
          /\ brand_pivot.rows[i]["Price Group"] = brand_pivot.sorted[i]["Price Group"]

(***************************************************************************)
(* Properties of the temporary directory and of the chain table            *)
(***************************************************************************)
Events(kind) == {i \in DOMAIN load_log : load_log[i] = kind}

ReadsPrecedeRemoval ==
    \A i \in Events("read"), j \in Events("rmtree") : i < j

\* C26: when control has returned to the caller, by a return or by an
\* exception, the temporary directory is removed, and it was not removed
\* before the last read of a downloaded catalog.
C26_TempDirRemovedOnEveryExit ==
    /\ load_pc = "left" => ~temp_dir.exists
    /\ ReadsPrecedeRemoval

\* C26, amended: process_data attempts the removal exactly once on every exit
\* path, as its last step and after every read of a downloaded catalog; the
\* directory exists from its creation up to that attempt, and afterwards
\* exactly when the attempt failed.
C26_RemovalAttemptedOnEveryExit ==
    /\ load_pc \notin {"idle", "enter", "left"} =>
          /\ temp_dir.exists
          /\ Events("rmtree") \cup Events("rmtree failed") = {}
    /\ load_pc = "left" =>
          /\ Events("rmtree") \cup Events("rmtree failed") = {Len(load_log)}
          /\ \A i \in Events("read") : i < Len(load_log)
          /\ temp_dir.exists <=> load_log[Len(load_log)] = "rmtree failed"
          /\ ~temp_dir.exists => temp_dir.files = {}
          /\ load_result.kind \in {"file", "error", "raised"}

\* An invocation that read the catalogs, returned the report's name and
\* removed the directory with its three files.
C26_Witness ==
    /\ load_pc = "left"
    /\ load_result.kind = "file"
    /\ Events("read") # {}
    /\ load_log[Len(load_log)] = "rmtree"
    /\ ~temp_dir.exists

\* The position in the sheet of the chain-pricing header row: the first row
\* whose first cell contains "vendor id", whatever the case of its letters.
IsHeader(cell) ==
    ~cell.na /\ \E i \in 0..(Len(cell.s) - 9) :
                   lower(SubSeq(cell.s, i + 1, i + 9)) = << "v", "e", "n", "d", "o", "r", " ", "i", "d" >>

HeaderPosition == Min({i \in DOMAIN chain_sheet : IsHeader(chain_sheet[i])})

\* C27: the chain table holds every row of the sheet below the header row,
\* wherever the header row is.
C27_RowsBelowHeaderRetained ==
    load_pc = "process" =>
        CHAIN = SubSeq(chain_sheet, HeaderPosition + 1, Len(chain_sheet))
====
